---- MODULE Spec2Model ----
(***************************************************************************)
(* Continuity plugin: the append-only, hash-chained action stream writer   *)
(* (ContinuityStore), the chain verifier (IntegrityValidator) and the      *)
(* lifecycle hooks that drive them.                                        *)
(*                                                                         *)
(* A logAction call is a sequence of steps, one per await point of the     *)
(* code: the free-space probe, the header write of a rotation, the append, *)
(* the fsync, the emergency append.  The synchronous code between two      *)
(* awaits belongs to the step that runs it.                                *)
(*                                                                         *)
(* Abstractions:                                                           *)
(*  - a stream file path action-stream-YYYY-MM-DD.jsonl is its day number; *)
(*    lexical order of the paths is the order of the day numbers;          *)
(*  - SHA-256 is collision free: a hash value is the sequence of the       *)
(*    serialized contents it was computed over, newest first;              *)
(*  - an entry is its id and a payload class: "plain", "hdrkey" (its       *)
(*    toolParams or metadata hold a key _header with value true, so its    *)
(*    JSON line contains the text "_header":true) and "unser" (a value     *)
(*    JSON.stringify throws on).                                           *)
(***************************************************************************)
EXTENDS Integers, Sequences, FiniteSets, TLC

\* ---------------------------------------------------------------- bounds
MaxDay == 2        \* UTC days the clock runs through
MaxCalls == 3      \* logAction calls in one behaviour
MaxFaults == 1     \* injected filesystem failures in one behaviour
MaxProcs == 2      \* host events that may overlap
MaxCheckpoints == 52  \* createCheckpoint calls in one behaviour
MinutesPerDay == 3 \* the length of a UTC day, in minutes of the model clock

\* ------------------------------------------------------ program constants
MIN_FREE_SPACE_MB == 100
MAX_CHECKPOINTS == 50
DEFAULT_THRESHOLD_MINUTES == 30

Days == 1..MaxDay
Procs == 1..MaxProcs
NoPath == 0
Payloads == {"plain", "hdrkey", "unser"}
\* readings of the free-space probe, in MB; ProbeFails: statfs throws
ProbeFails == 0 - 1
FreeSpaceReadings == {MIN_FREE_SPACE_MB - 1, MIN_FREE_SPACE_MB, MIN_FREE_SPACE_MB + 1, ProbeFails}

\* ----------------------------------------------------------------- hashes
NullHash == << <<0, "null", 0, "null", 0, "null", "null", 0>> >>
Genesis == << <<0, "genesis", 0, "genesis", 0, "genesis", "genesis", 0>> >>
ForgedHash == << <<0, "forged", 0, "forged", 0, "forged", "forged", 0>> >>

\* JSON.stringify of an action without _integrity
Stringify(action) ==
  <<action.id, action.payload, action.sequence, action.type, action.timestamp,
    action.sessionId, action.sessionKey, action.parentActionId>>

Serializable(entry) == entry.payload # "unser"

calculateHash(action, previous) == <<Stringify(action)>> \o previous

\* x || "genesis"
OrGenesis(h) == IF h = NullHash THEN Genesis ELSE h

\* ------------------------------------------------------------------ lines
\* a timestamp is the minutes since the first midnight of the model;
\* NoTimestamp: the object has no timestamp field (undefined)
NoTimestamp == 0 - 1

HeaderLine ==
  [kind |-> "header", id |-> 0, payload |-> "header", sequence |-> 0,
   type |-> "none", timestamp |-> NoTimestamp,
   sessionId |-> "undefined", sessionKey |-> "undefined",
   parentActionId |-> 0,
   integrity |-> FALSE, hash |-> NullHash, previous |-> NullHash]

NoAction ==
  [kind |-> "action", id |-> 0, payload |-> "plain", sequence |-> 0,
   type |-> "none", timestamp |-> NoTimestamp,
   sessionId |-> "undefined", sessionKey |-> "undefined",
   parentActionId |-> 0,
   integrity |-> FALSE, hash |-> NullHash, previous |-> NullHash]

NoEntry ==
  [id |-> 0, payload |-> "plain", type |-> "none", timestamp |-> NoTimestamp,
   sessionId |-> "undefined", sessionKey |-> "undefined",
   parentActionId |-> 0]

NoFile == [exists |-> FALSE, lines |-> <<>>, durable |-> 0]

FreshState == [sequence |-> 0, lastHash |-> NullHash]
NoStateFile == [present |-> FALSE, sequence |-> 0, lastHash |-> NullHash]

\* close(): the state it serialized, whether shutdown.pre called it, and the
\* ids handed out when it was called
NotClosing ==
  [pc |-> "idle", snapshot |-> FreshState, shutdown |-> FALSE, issued |-> 0]

\* a checkpoint is its id, its timestamp and its message count; a file of
\* checkpoints/ is listed by its id and timestamp, the fields pruning reads
NoCheckpoint == [checkpointId |-> 0, timestamp |-> 0, messageCount |-> 0]

IdleCall ==
  [pc |-> "idle", entry |-> NoEntry, stored |-> NoAction, path |-> NoPath,
   result |-> "none", via |-> "none", synced |-> FALSE, pre |-> FreshState,
   failed |-> "none", caller |-> "none", hook |-> "none", context |-> "none",
   checkpoint |-> NoCheckpoint]

\* file: "absent", "torn" (does not parse) or "ok"
NoManifest ==
  [file |-> "absent", checkpoint |-> NoCheckpoint,
   originalMessageRange |-> [start |-> 0, end |-> 0], compactedAt |-> 0,
   canRecover |-> FALSE]

TornManifest == [NoManifest EXCEPT !.file = "torn"]

NoCheckpointOp == [op |-> "none", checkpoint |-> NoCheckpoint, id |-> 0]

MessageCounts == {0, 99, 100, 101}

\* implicitResumeThresholdMinutes: off, within a day, and the default
Thresholds == {0, 1, 2, DEFAULT_THRESHOLD_MINUTES}

Configs ==
  [logLevel : {"off", "judgment", "everything"},
   enableIntegrityCheck : BOOLEAN,
   blockOnPersistenceFailure : BOOLEAN,
   implicitResumeThresholdMinutes : Thresholds,
   enablePreCompactionCheckpoint : {TRUE}]

VARIABLES
  cfg,                \* the plugin configuration (ContinuityConfig)
  state,              \* ContinuityStore.state: {sequence, lastHash}
  currentStreamPath,  \* ContinuityStore.currentStreamPath (NoPath: null)
  emergencyMode,      \* ContinuityStore.emergencyMode
  initialized,        \* ContinuityStore.initialized
  files,              \* the stream files, by day
  emergencyLog,       \* EMERGENCY_RECOVERY.jsonl: the ids of its entries
  stateFile,          \* .state.json
  today,              \* the UTC day of the wall clock
  minute,             \* the minute of that day
  calls,              \* the logAction calls, one slot per host event
  closing,            \* close(): its position and the state it serialized
  store,              \* the plugin's module-level `store`: "null" or "set"
  nextId,             \* ids handed out by generateActionId so far
  faults,             \* filesystem failures injected so far
  checkpointFiles,    \* checkpoints/: its files, in directory order
  manifestFile,       \* COMPACTION_MANIFEST.json
  checkpointOp,       \* the last operation of the checkpoint manager
  created             \* checkpoint ids minted so far

checkpointVars == <<checkpointFiles, manifestFile, checkpointOp, created>>

vars == <<cfg, state, currentStreamPath, emergencyMode, initialized, files,
          emergencyLog, stateFile, today, minute, calls, closing, store, nextId,
          faults, checkpointVars>>

clockVars == <<today, minute>>

writerVars == <<state, currentStreamPath, emergencyMode, initialized>>
diskVars == <<files, emergencyLog, stateFile>>

InFlight(p) == calls[p].pc # "idle"
Quiescent == (\A p \in Procs : ~InFlight(p)) /\ closing.pc = "idle"

CanFail == faults < MaxFaults
Fail == faults' = faults + 1


\* ------------------------------------------------------- ContinuityStore

\* BeforeToolCallResult with every tool's logAction awaited inside the try
BeforeToolCallResultForEveryTool(caller, r) ==
  IF caller \in {"tool_critical", "tool_other"}
  THEN IF r # "true" /\ cfg.blockOnPersistenceFailure THEN "block" ELSE "pass"
  ELSE "none"

\* What before_tool_call tells the host once logAction has settled with r
\* ("true", "false", or "rejected": the promise rejected).  Only a critical
\* tool's call is awaited inside the try whose outcome can block.
BeforeToolCallResult(caller, r) ==
  IF caller = "tool_critical"
  THEN IF r # "true" /\ cfg.blockOnPersistenceFailure THEN "block" ELSE "pass"
  ELSE IF caller = "tool_other" THEN "pass"
  ELSE "none"

\* the call returns r; v: where its entry went.  The caller's continuation
\* runs in the same turn of the event loop.
Returned(c, r, v) ==
  [c EXCEPT !.pc = "done", !.result = r, !.via = v, !.stored = NoAction,
            !.path = NoPath, !.hook = BeforeToolCallResult(c.caller, r)]

\* before_agent_start goes on after the logAction of its restore entry
\* settled without rejecting: it attaches the context and logs agent_start
HookContinues(c) ==
  /\ c.pc = "done"
  /\ c.caller \in {"implicit_restore", "explicit_restore"}
  /\ c.result # "rejected"

\* logToEmergency up to its await: JSON.stringify(emergencyEntry) is inside the
\* try, so an entry that does not serialize makes it return false
\* why: what sent the entry here ("latched", "lowdisk", "append", "fsync")
ToEmergency(c, why) ==
  IF Serializable(c.entry) THEN [c EXCEPT !.pc = "emergency", !.failed = why]
  ELSE Returned([c EXCEPT !.failed = why], "false", "none")

\* freeMB > MIN_FREE_SPACE_MB; a probe that throws counts as enough space
checkDiskSpace(reading) ==
  IF reading = ProbeFails THEN TRUE ELSE reading > MIN_FREE_SPACE_MB

getTodayStreamPath == today

\* Date.now() and getTimestamp(), in minutes
Now == (today - 1) * MinutesPerDay + minute
getTimestamp == Now

\* the type a hook gives its entry; "direct": a caller of the writer itself
EntryType(who) ==
  IF who \in {"tool_critical", "tool_other"} THEN "tool_call"
  ELSE IF who = "implicit_restore" THEN "continuity_implicit_restore"
  ELSE IF who = "explicit_restore" THEN "continuity_restore"
  ELSE who

\* `let currentSessionId = null`: assigned nowhere but in shutdownContinuity,
\* which sets it to null again
currentSessionId == "null"

\* ctx.sessionKey: the host's session the tool events belong to
HostSessions == {"session-1"}
SessionKey(who) ==
  IF who \in {"tool_critical", "tool_other", "tool_result"}
  THEN CHOOSE sessionKey \in HostSessions : TRUE ELSE "undefined"

\* the ActionEntry a hook builds: generateActionId(), getTimestamp(), its
\* type, sessionId: currentSessionId || undefined, metadata.sessionKey
NewEntry(id, payload, who) ==
  [id |-> id, payload |-> payload, type |-> EntryType(who),
   timestamp |-> getTimestamp,
   sessionId |-> IF currentSessionId # "null" THEN currentSessionId
                 ELSE "undefined",
   sessionKey |-> SessionKey(who), parentActionId |-> 0]

buildStoredAction(entry) ==
  LET sequence == state.sequence + 1
      actionForHash ==
        [kind |-> "action", id |-> entry.id, payload |-> entry.payload,
         sequence |-> sequence, type |-> entry.type,
         timestamp |-> entry.timestamp, sessionId |-> entry.sessionId,
         sessionKey |-> entry.sessionKey,
         parentActionId |-> entry.parentActionId, integrity |-> FALSE,
         hash |-> NullHash, previous |-> NullHash]
  IN IF cfg.enableIntegrityCheck
     THEN LET previousHash == OrGenesis(state.lastHash)
              hash == calculateHash(actionForHash, previousHash)
          IN [actionForHash EXCEPT !.integrity = TRUE, !.hash = hash,
                                   !.previous = previousHash]
     ELSE actionForHash

\* logAction from buildStoredAction to the await of appendFile: with integrity
\* on, calculateHash serializes outside any try and its throw rejects the call;
\* with integrity off, JSON.stringify(storedAction) is caught and returns false
BuildAndIssue(c) ==
  IF ~Serializable(c.entry)
  THEN IF cfg.enableIntegrityCheck THEN Returned(c, "rejected", "none")
       ELSE Returned(c, "false", "none")
  ELSE [c EXCEPT !.pc = "append", !.stored = buildStoredAction(c.entry),
                 !.path = currentStreamPath]

\* the state committed after a successful append and fsync
CommitState(stored) ==
  [sequence |-> stored.sequence,
   lastHash |-> IF cfg.enableIntegrityCheck /\ stored.integrity
                THEN stored.hash ELSE state.lastHash]

\* logAction up to its first await, for the call record c of a new entry
logActionEntry(c) ==
  IF cfg.logLevel = "off" THEN Returned(c, "true", "off")
  ELSE IF ~initialized THEN Returned(c, "false", "none")
  ELSE IF emergencyMode THEN ToEmergency(c, "latched")
  ELSE [c EXCEPT !.pc = "disk"]

\* LogActionCall without the test of `initialized`
LogActionCallSkipsInitialized(p, payload, who) ==
  /\ ~InFlight(p)
  /\ nextId < MaxCalls
  /\ nextId' = nextId + 1
  /\ LET e == NewEntry(nextId + 1, payload, who)
         c == [IdleCall EXCEPT !.entry = e, !.pre = state, !.caller = who]
     IN calls' = [calls EXCEPT ![p] =
          IF cfg.logLevel = "off" THEN Returned(c, "true", "off")
          ELSE IF emergencyMode THEN ToEmergency(c, "latched")
          ELSE [c EXCEPT !.pc = "disk"]]
  /\ UNCHANGED <<cfg, checkpointVars, writerVars, diskVars, clockVars, closing, store, faults>>

\* LogActionCall without the emergency-mode test: every call goes on to the
\* free-space probe
LogActionCallIgnoresLatch(p, payload, who) ==
  /\ ~InFlight(p)
  /\ nextId < MaxCalls
  /\ nextId' = nextId + 1
  /\ LET e == NewEntry(nextId + 1, payload, who)
         c == [IdleCall EXCEPT !.entry = e, !.pre = state, !.caller = who]
     IN calls' = [calls EXCEPT ![p] =
          IF cfg.logLevel = "off" THEN Returned(c, "true", "off")
          ELSE IF ~initialized THEN Returned(c, "false", "none")
          ELSE [c EXCEPT !.pc = "disk"]]
  /\ UNCHANGED <<cfg, checkpointVars, writerVars, diskVars, clockVars, closing, store, faults>>

\* LogActionCall with the initialized test ahead of the logLevel test
LogActionCallChecksInitializedFirst(p, payload, who) ==
  /\ ~InFlight(p)
  /\ nextId < MaxCalls
  /\ nextId' = nextId + 1
  /\ LET e == NewEntry(nextId + 1, payload, who)
         c == [IdleCall EXCEPT !.entry = e, !.pre = state, !.caller = who]
     IN calls' = [calls EXCEPT ![p] =
          IF ~initialized THEN Returned(c, "false", "none")
          ELSE IF cfg.logLevel = "off" THEN Returned(c, "true", "off")
          ELSE IF emergencyMode THEN ToEmergency(c, "latched")
          ELSE [c EXCEPT !.pc = "disk"]]
  /\ UNCHANGED <<cfg, checkpointVars, writerVars, diskVars, clockVars, closing, store, faults>>

\* logAction, from the call to its first await
LogActionCall(p, payload, who) ==
  /\ ~InFlight(p)
  /\ nextId < MaxCalls
  /\ nextId' = nextId + 1
  /\ LET e == NewEntry(nextId + 1, payload, who)
         c == [IdleCall EXCEPT !.entry = e, !.pre = state, !.caller = who]
     IN calls' = [calls EXCEPT ![p] =
          IF cfg.logLevel = "off" THEN Returned(c, "true", "off")
          ELSE IF ~initialized THEN Returned(c, "false", "none")
          ELSE IF emergencyMode THEN ToEmergency(c, "latched")
          ELSE [c EXCEPT !.pc = "disk"]]
  /\ UNCHANGED <<cfg, checkpointVars, writerVars, diskVars, clockVars, closing, store, faults>>

\* the continuation of `await this.checkDiskSpace()` when the probe read
\* `reading` MB free (or threw): emergency mode, rotation
LogActionDiskCheckOf(p, reading) ==
  /\ calls[p].pc = "disk"
  /\ LET c == calls[p] IN
     IF ~checkDiskSpace(reading)
     THEN /\ emergencyMode' = TRUE
          /\ calls' = [calls EXCEPT ![p] = ToEmergency(c, "lowdisk")]
          /\ UNCHANGED currentStreamPath
     ELSE IF getTodayStreamPath # currentStreamPath
     THEN /\ currentStreamPath' = getTodayStreamPath
          /\ calls' = [calls EXCEPT ![p] =
               [c EXCEPT !.pc = "header", !.path = getTodayStreamPath]]
          /\ UNCHANGED emergencyMode
     ELSE /\ calls' = [calls EXCEPT ![p] = BuildAndIssue(c)]
          /\ UNCHANGED <<emergencyMode, currentStreamPath>>
  /\ UNCHANGED <<cfg, checkpointVars, state, initialized, diskVars, clockVars, closing, store,
                 nextId, faults>>

\* the free space the probe reports is the environment's
LogActionDiskCheck(p) ==
  \E reading \in FreeSpaceReadings : LogActionDiskCheckOf(p, reading)

\* writeStreamHeader of a rotation: writeFile with flag wx; a throw rejects
LogActionHeader(p) ==
  /\ calls[p].pc = "header"
  /\ LET c == calls[p]
         d == c.path
     IN \/ /\ ~files[d].exists
           /\ files' = [files EXCEPT ![d] =
                [exists |-> TRUE, lines |-> <<HeaderLine>>, durable |-> 0]]
           /\ calls' = [calls EXCEPT ![p] = BuildAndIssue(c)]
           /\ UNCHANGED faults
        \/ /\ files[d].exists
           /\ calls' = [calls EXCEPT ![p] = Returned(c, "rejected", "none")]
           /\ UNCHANGED <<files, faults>>
        \/ /\ ~files[d].exists
           /\ CanFail
           /\ Fail
           /\ calls' = [calls EXCEPT ![p] = Returned(c, "rejected", "none")]
           /\ UNCHANGED files
  /\ UNCHANGED <<cfg, checkpointVars, writerVars, emergencyLog, stateFile, clockVars, closing,
                 store, nextId>>

\* LogActionAppend with the state update right after the append, before the
\* fsync
LogActionAppendCommitsEarly(p) ==
  /\ calls[p].pc = "append"
  /\ LET c == calls[p]
         d == c.path
         f == files[d]
     IN \/ /\ files' = [files EXCEPT ![d] =
                [f EXCEPT !.exists = TRUE, !.lines = Append(f.lines, c.stored)]]
           /\ state' = CommitState(c.stored)
           /\ calls' = [calls EXCEPT ![p] = [c EXCEPT !.pc = "fsync"]]
           /\ UNCHANGED faults
        \/ /\ CanFail
           /\ Fail
           /\ calls' = [calls EXCEPT ![p] = ToEmergency(c, "append")]
           /\ UNCHANGED <<files, state>>
  /\ UNCHANGED <<cfg, checkpointVars, currentStreamPath, emergencyMode, initialized,
                 emergencyLog, stateFile, clockVars, closing, store, nextId>>

\* fs.appendFile(currentStreamPath, jsonLine): creates the file when missing
LogActionAppend(p) ==
  /\ calls[p].pc = "append"
  /\ LET c == calls[p]
         d == c.path
         f == files[d]
     IN \/ /\ files' = [files EXCEPT ![d] =
                [f EXCEPT !.exists = TRUE, !.lines = Append(f.lines, c.stored)]]
           /\ calls' = [calls EXCEPT ![p] = [c EXCEPT !.pc = "fsync"]]
           /\ UNCHANGED faults
        \/ /\ CanFail
           /\ Fail
           /\ calls' = [calls EXCEPT ![p] = ToEmergency(c, "append")]
           /\ UNCHANGED files
  /\ UNCHANGED <<cfg, checkpointVars, writerVars, emergencyLog, stateFile, clockVars, closing,
                 store, nextId>>

\* LogActionFsync with the state update moved before the fsync
LogActionFsyncCommitsFirst(p) ==
  /\ calls[p].pc = "fsync"
  /\ LET c == calls[p]
         d == c.path
         f == files[d]
         flushed == [files EXCEPT ![d] = [f EXCEPT !.durable = Len(f.lines)]]
     IN \/ /\ files' = flushed
           /\ calls' = [calls EXCEPT ![p] =
                Returned([c EXCEPT !.synced = TRUE], "true", "stream")]
           /\ UNCHANGED faults
        \/ /\ CanFail
           /\ Fail
           /\ \E didSync \in BOOLEAN :
                /\ files' = IF didSync THEN flushed ELSE files
                /\ calls' = [calls EXCEPT ![p] =
                     ToEmergency([c EXCEPT !.synced = didSync], "fsync")]
  /\ state' = CommitState(calls[p].stored)
  /\ UNCHANGED <<cfg, checkpointVars, currentStreamPath, emergencyMode, initialized,
                 emergencyLog, stateFile, clockVars, closing, store, nextId>>

\* open r+, fd.sync, fd.close, then the state update and `return true`; a throw
\* of any of the three goes to the catch, which routes to the emergency log
LogActionFsync(p) ==
  /\ calls[p].pc = "fsync"
  /\ LET c == calls[p]
         d == c.path
         f == files[d]
         flushed == [files EXCEPT ![d] = [f EXCEPT !.durable = Len(f.lines)]]
     IN \/ /\ files' = flushed
           /\ state' = CommitState(c.stored)
           /\ calls' = [calls EXCEPT ![p] =
                Returned([c EXCEPT !.synced = TRUE], "true", "stream")]
           /\ UNCHANGED faults
        \/ /\ CanFail
           /\ Fail
           /\ \E didSync \in BOOLEAN :
                /\ files' = IF didSync THEN flushed ELSE files
                /\ calls' = [calls EXCEPT ![p] =
                     ToEmergency([c EXCEPT !.synced = didSync], "fsync")]
           /\ UNCHANGED state
  /\ UNCHANGED <<cfg, checkpointVars, currentStreamPath, emergencyMode, initialized,
                 emergencyLog, stateFile, clockVars, closing, store, nextId>>

\* logToEmergency: appendFile to EMERGENCY_RECOVERY.jsonl, no fsync
LogActionEmergency(p) ==
  /\ calls[p].pc = "emergency"
  /\ LET c == calls[p]
     IN \/ /\ emergencyLog' = Append(emergencyLog, c.entry.id)
           /\ calls' = [calls EXCEPT ![p] = Returned(c, "true", "emergency")]
           /\ UNCHANGED faults
        \/ /\ CanFail
           /\ Fail
           /\ calls' = [calls EXCEPT ![p] = Returned(c, "false", "none")]
           /\ UNCHANGED emergencyLog
  /\ UNCHANGED <<cfg, checkpointVars, writerVars, files, stateFile, clockVars, closing, store,
                 nextId>>

\* the promise of logAction settles and the caller's continuation has run
LogActionReturn(p) ==
  /\ calls[p].pc = "done"
  /\ ~HookContinues(calls[p])
  /\ calls' = [calls EXCEPT ![p] = IdleCall]
  /\ UNCHANGED <<cfg, checkpointVars, writerVars, diskVars, clockVars, closing, store, nextId, faults>>

\* loadState: .state.json when it reads and parses, else a fresh state
loadState(readable) ==
  IF readable /\ stateFile.present
  THEN [sequence |-> stateFile.sequence, lastHash |-> stateFile.lastHash]
  ELSE FreshState

\* InitializeStore with a header write that does not look for the file
\* first and opens it with flag w: an existing file is replaced by a header
InitializeStoreOverwritesHeader ==
  /\ ~initialized
  /\ closing.pc = "idle"
  /\ \/ /\ CanFail
        /\ Fail
        /\ UNCHANGED <<state, currentStreamPath, initialized, files>>
     \/ \E readable, headerOk \in BOOLEAN :
          LET injected == (IF readable THEN 0 ELSE 1)
                          + (IF headerOk THEN 0 ELSE 1)
          IN /\ readable \/ stateFile.present
             /\ faults + injected <= MaxFaults
             /\ faults' = faults + injected
             /\ state' = loadState(readable)
             /\ currentStreamPath' = getTodayStreamPath
             /\ files' = IF headerOk
                         THEN [files EXCEPT ![today] =
                                [exists |-> TRUE, lines |-> <<HeaderLine>>,
                                 durable |-> 0]]
                         ELSE files
             /\ initialized' = headerOk
  /\ UNCHANGED <<cfg, checkpointVars, emergencyMode, emergencyLog, stateFile, clockVars, calls,
                 closing, nextId>>

\* initialize(): mkdirs, loadState, the day's path, the header when the file
\* is missing.  A throw of mkdir or of the header write rejects the call and
\* leaves initialized false.
InitializeStore ==
  /\ ~initialized
  /\ closing.pc = "idle"
  /\ \/ /\ CanFail
        /\ Fail
        /\ UNCHANGED <<state, currentStreamPath, initialized, files>>
     \/ \E readable, headerOk \in BOOLEAN :
          LET missing == ~files[today].exists
              injected == (IF readable THEN 0 ELSE 1)
                          + (IF headerOk THEN 0 ELSE 1)
          IN /\ readable \/ stateFile.present
             /\ headerOk \/ missing
             /\ faults + injected <= MaxFaults
             /\ faults' = faults + injected
             /\ state' = loadState(readable)
             /\ currentStreamPath' = getTodayStreamPath
             /\ files' = IF missing /\ headerOk
                         THEN [files EXCEPT ![today] =
                                [exists |-> TRUE, lines |-> <<HeaderLine>>,
                                 durable |-> 0]]
                         ELSE files
             /\ initialized' = headerOk
  /\ UNCHANGED <<cfg, checkpointVars, emergencyMode, emergencyLog, stateFile, clockVars, calls,
                 closing, nextId>>

\* initialize() called on the writer directly
Initialize == InitializeStore /\ UNCHANGED store

\* close() up to the await of saveState: JSON.stringify(this.state) is taken now
CloseCall ==
  /\ closing.pc = "idle"
  /\ initialized
  /\ closing' = [pc |-> "saving", snapshot |-> state, shutdown |-> FALSE,
                 issued |-> nextId]
  /\ UNCHANGED <<cfg, checkpointVars, writerVars, diskVars, clockVars, calls, store, nextId, faults>>

\* saveState's writeFile and the rest of close(); a failed write is caught and
\* leaves .state.json as it was or unreadable
CloseDone ==
  /\ closing.pc = "saving"
  /\ \/ /\ stateFile' = [present |-> TRUE, sequence |-> closing.snapshot.sequence,
                         lastHash |-> closing.snapshot.lastHash]
        /\ UNCHANGED faults
     \/ /\ CanFail
        /\ Fail
        /\ stateFile' \in {stateFile, NoStateFile}
  /\ initialized' = FALSE
  /\ closing' = NotClosing
  /\ store' = IF closing.shutdown THEN "null" ELSE store
  /\ UNCHANGED <<cfg, checkpointVars, state, currentStreamPath, emergencyMode, files,
                 emergencyLog, clockVars, calls, nextId>>

\* the wall clock passes a UTC midnight
Tick ==
  /\ today < MaxDay
  /\ today' = today + 1
  /\ minute' = 0
  /\ UNCHANGED <<cfg, checkpointVars, writerVars, diskVars, calls, closing, store, nextId, faults>>

\* what a file keeps when the machine stops: the lines up to its last fsync
DurablePart(f) ==
  IF f.durable = 0 THEN NoFile ELSE [f EXCEPT !.lines = SubSeq(f.lines, 1, f.durable)]

\* The process ends without close() and a new writer is constructed (state
\* {0, null}, no path, no emergency mode, not initialized).  powerLoss: the
\* machine stopped too, and what was never fsync'd may be gone.
Crash ==
  /\ \E powerLoss \in BOOLEAN :
       /\ files' = IF powerLoss THEN [d \in Days |-> DurablePart(files[d])] ELSE files
       /\ emergencyLog' = IF powerLoss THEN <<>> ELSE emergencyLog
       /\ stateFile' \in IF powerLoss THEN {stateFile, NoStateFile} ELSE {stateFile}
  /\ state' = FreshState
  /\ currentStreamPath' = NoPath
  /\ emergencyMode' = FALSE
  /\ initialized' = FALSE
  /\ calls' = [p \in Procs |-> IdleCall]
  /\ closing' = NotClosing
  /\ store' = "null"
  /\ UNCHANGED <<cfg, checkpointVars, clockVars, nextId, faults>>

\* ------------------------------------------------------ lifecycle hooks
\* `store` is "null", "booting" (assigned, initialize() pending) or "set"

\* boot.post up to the await of store.initialize(): initializeContinuity
\* merges the configuration and constructs the store
BootPost ==
  /\ store = "null"
  /\ Quiescent
  /\ store' = "booting"
  /\ state' = FreshState
  /\ currentStreamPath' = NoPath
  /\ emergencyMode' = FALSE
  /\ initialized' = FALSE
  /\ UNCHANGED <<cfg, checkpointVars, diskVars, clockVars, calls, closing, nextId, faults>>

\* the store.initialize() of boot.post; when it throws the handler rejects and
\* the store stays assigned and uninitialized
BootInitialize ==
  /\ store = "booting"
  /\ InitializeStore
  /\ store' = "set"

\* shutdown.pre up to the await of store.close(); `store = null` follows the
\* close (at once when the store is not initialized)
ShutdownPre ==
  /\ store = "set"
  /\ closing.pc = "idle"
  /\ IF initialized
     THEN /\ closing' = [pc |-> "saving", snapshot |-> state, shutdown |-> TRUE,
                          issued |-> nextId]
          /\ UNCHANGED store
     ELSE /\ store' = "null"
          /\ UNCHANGED closing
  /\ UNCHANGED <<cfg, checkpointVars, writerVars, diskVars, clockVars, calls, nextId, faults>>

\* before_tool_call up to its await: without a store (config undefined) or
\* with logging off the hook returns undefined at once; a critical tool's
\* entry is logged and the result awaited; another tool's entry is logged only
\* under "everything"
BeforeToolCall(p, critical, payload) ==
  /\ ~InFlight(p)
  /\ LET who == IF critical THEN "tool_critical" ELSE "tool_other"
         passes == [IdleCall EXCEPT !.pc = "done", !.caller = who, !.hook = "pass"]
     IN IF store = "null" \/ cfg.logLevel = "off"
           \/ (~critical /\ cfg.logLevel # "everything")
        THEN /\ calls' = [calls EXCEPT ![p] = passes]
             /\ UNCHANGED <<cfg, checkpointVars, writerVars, diskVars, clockVars, closing, store,
                            nextId, faults>>
        ELSE LogActionCall(p, payload, who)

\* ContinuityActionId without the test of `persisted`
ContinuityActionIdUnlessBlocked(c) ==
  IF c.caller = "tool_critical" THEN c.entry.id ELSE 0

\* params.__continuity_action_id as before_tool_call leaves it on the
\* host's params object: the id of the tool_call entry when the critical
\* tool's logAction returned true, else nothing (0: undefined)
ContinuityActionId(c) ==
  IF c.caller = "tool_critical" /\ c.result = "true" THEN c.entry.id ELSE 0

\* after_tool_call up to its await of logAction, fired by the host for the
\* tool call of slot p once before_tool_call let it pass and the tool ran,
\* with the params object before_tool_call was given: nothing without a
\* store or with logging off, else the tool_result entry with
\* parentActionId: actionId
AfterToolCall(p) ==
  /\ calls[p].pc = "done"
  /\ calls[p].caller \in {"tool_critical", "tool_other"}
  /\ calls[p].hook = "pass"
  /\ LET actionId == ContinuityActionId(calls[p])
         e == [NewEntry(nextId + 1, "plain", "tool_result")
                 EXCEPT !.parentActionId = actionId]
         c == [IdleCall EXCEPT !.entry = e, !.pre = state,
                               !.caller = "tool_result"]
     IN IF store = "null" \/ cfg.logLevel = "off"
        THEN /\ calls' = [calls EXCEPT ![p] =
                  [IdleCall EXCEPT !.pc = "done", !.caller = "tool_result"]]
             /\ UNCHANGED nextId
        ELSE /\ nextId < MaxCalls
             /\ nextId' = nextId + 1
             /\ calls' = [calls EXCEPT ![p] = logActionEntry(c)]
  /\ UNCHANGED <<cfg, checkpointVars, writerVars, diskVars, clockVars, closing,
                 store, faults>>

\* ------------------------------------------------------ CheckpointManager
\* The ids count the checkpoints minted: "checkpoint-<epoch ms>-<random>"
\* names sort in the order of creation, which is the directory order.

MathMax(a, b) == IF a >= b THEN a ELSE b

\* getManifest: null (NoManifest) when the file is missing or does not parse
getManifest == IF manifestFile.file = "ok" THEN manifestFile ELSE NoManifest

getLastCheckpoint == getManifest.checkpoint

\* fs.access of checkpoints/<id>.json
CheckpointFileExists(id) ==
  \E i \in 1..Len(checkpointFiles) : checkpointFiles[i].checkpointId = id

canRecover ==
  LET manifest == getManifest IN
  IF manifest = NoManifest THEN FALSE
  ELSE IF CheckpointFileExists(manifest.checkpoint.checkpointId)
  THEN manifest.canRecover
  ELSE FALSE

\* the place of c in listCheckpoints: the stable sort by timestamp, newest
\* first, keeps the directory order among equal timestamps
ListedPosition(cps, c) ==
  1 + Cardinality({j \in 1..Len(cps) :
        \/ cps[j].timestamp > c.timestamp
        \/ cps[j].timestamp = c.timestamp /\ cps[j].checkpointId < c.checkpointId})

\* cleanupOldCheckpoints without the sort: slice(MAX_CHECKPOINTS) of the
\* directory order
cleanupOldCheckpointsUnsorted(cps) ==
  IF Len(cps) > MAX_CHECKPOINTS THEN SubSeq(cps, 1, MAX_CHECKPOINTS) ELSE cps

\* cleanupOldCheckpoints: unlink what listCheckpoints().slice(MAX_CHECKPOINTS)
\* holds; the result is what stays in the directory
cleanupOldCheckpoints(cps) ==
  IF Len(cps) > MAX_CHECKPOINTS
  THEN SelectSeq(cps, LAMBDA c : ListedPosition(cps, c) <= MAX_CHECKPOINTS)
  ELSE cps

\* originalMessageRange without the Math.max
originalMessageRangeUnclamped(messageCount) ==
  [start |-> messageCount - 100, end |-> messageCount]

originalMessageRange(messageCount) ==
  [start |-> MathMax(0, messageCount - 100), end |-> messageCount]

\* the timestamps a caller may pass with checkpoint k: newer than all before
\* or, for the checkpoints of SkewedIds, equal to the newest before or older
\* than all
SkewedIds == {2, MAX_CHECKPOINTS + 1, MAX_CHECKPOINTS + 2}
Timestamps(k) == {k + 1} \cup (IF k \in SkewedIds THEN {1, k} ELSE {})

\* createCheckpoint(data) on the storage directory: the checkpoint file, the
\* manifest, the pruning
createCheckpoint(timestamp, messageCount) ==
  /\ created < MaxCheckpoints
  /\ created' = created + 1
  /\ LET checkpoint ==
           [checkpointId |-> created + 1, timestamp |-> timestamp,
            messageCount |-> messageCount]
         written ==
           Append(checkpointFiles,
                  [checkpointId |-> created + 1, timestamp |-> timestamp])
     IN /\ manifestFile' =
             [file |-> "ok", checkpoint |-> checkpoint,
              originalMessageRange |-> originalMessageRange(messageCount),
              compactedAt |-> timestamp, canRecover |-> TRUE]
        /\ checkpointFiles' = cleanupOldCheckpoints(written)
        /\ checkpointOp' =
             [op |-> "createCheckpoint", checkpoint |-> checkpoint, id |-> 0]

\* a caller of the checkpoint manager creates a checkpoint
CreateCheckpoint(timestamp, messageCount) ==
  /\ createCheckpoint(timestamp, messageCount)
  /\ UNCHANGED <<cfg, writerVars, diskVars, clockVars, calls, closing, store,
                 nextId, faults>>

\* createCheckpoint throws.  at = "checkpoint": mkdir or the write of the
\* checkpoint file fails and the directory is as before; at = "manifest": the
\* checkpoint file is there and the write of the manifest fails, leaving the
\* old manifest or a torn one.  Nothing is pruned.
createCheckpointThrows(timestamp, at) ==
  IF at = "checkpoint" THEN UNCHANGED checkpointVars
  ELSE /\ created < MaxCheckpoints
       /\ created' = created + 1
       /\ checkpointFiles' =
            Append(checkpointFiles,
                   [checkpointId |-> created + 1, timestamp |-> timestamp])
       /\ manifestFile' \in {manifestFile, TornManifest}
       /\ UNCHANGED checkpointOp

\* MarkRecovered without the test of the id
MarkRecoveredAnyId(id) ==
  /\ LET manifest == getManifest IN
     manifestFile' =
       IF manifest # NoManifest THEN [manifest EXCEPT !.canRecover = FALSE]
       ELSE manifestFile
  /\ checkpointOp' = [checkpointOp EXCEPT !.op = "markRecovered", !.id = id]
  /\ UNCHANGED <<cfg, writerVars, diskVars, clockVars, calls, closing, store,
                 nextId, faults, checkpointFiles, created>>

\* markRecovered(checkpointId)
MarkRecovered(id) ==
  /\ LET manifest == getManifest IN
     manifestFile' =
       IF manifest # NoManifest /\ manifest.checkpoint.checkpointId = id
       THEN [manifest EXCEPT !.canRecover = FALSE]
       ELSE manifestFile
  /\ checkpointOp' = [checkpointOp EXCEPT !.op = "markRecovered", !.id = id]
  /\ UNCHANGED <<cfg, writerVars, diskVars, clockVars, calls, closing, store,
                 nextId, faults, checkpointFiles, created>>

\* ---------------------------------------------------- IntegrityValidator

RECURSIVE ConcatFiles(_, _)
\* getStreamFiles and the reads: the lines of the files that exist, oldest
\* file first
ConcatFiles(fs, d) ==
  IF d > MaxDay THEN <<>>
  ELSE (IF fs[d].exists THEN fs[d].lines ELSE <<>>) \o ConcatFiles(fs, d + 1)

StreamLines(fs) == ConcatFiles(fs, 1)

\* line.includes('"_header":true'): the header object, and any action whose
\* JSON text holds a key _header with value true
IncludesHeaderText(line) ==
  line.kind = "header" \/ (line.kind = "action" /\ line.payload = "hdrkey")

\* const { _integrity, ...actionWithoutIntegrity } = action
WithoutIntegrity(action) ==
  [action EXCEPT !.integrity = FALSE, !.hash = NullHash, !.previous = NullHash]

NoError == [sequence |-> 0, type |-> "none"]

validateAction(action, previousHash) ==
  IF ~action.integrity THEN NoError
  ELSE IF action.previous # OrGenesis(previousHash)
  THEN [sequence |-> action.sequence, type |-> "chain_break"]
  ELSE IF calculateHash(WithoutIntegrity(action), action.previous) # action.hash
  THEN [sequence |-> action.sequence, type |-> "hash_mismatch"]
  ELSE NoError

RECURSIVE ValidateLines(_, _, _)
\* the loop of validateStream from line i on; acc: totalChecked, previousHash
\* and errors so far.  A line of kind "torn" does not parse.
ValidateLines(lines, i, acc) ==
  IF i > Len(lines) THEN acc
  ELSE LET line == lines[i] IN
       IF IncludesHeaderText(line) THEN ValidateLines(lines, i + 1, acc)
       ELSE IF line.kind = "torn"
       THEN ValidateLines(lines, i + 1,
              [acc EXCEPT !.errors = Append(@,
                 [sequence |-> acc.totalChecked + 1, type |-> "invalid_json"])])
       ELSE LET error == validateAction(line, acc.previousHash)
            IN ValidateLines(lines, i + 1,
                 [totalChecked |-> acc.totalChecked + 1,
                  previousHash |-> IF line.integrity THEN line.hash
                                   ELSE acc.previousHash,
                  errors |-> IF error.type # "none"
                             THEN Append(acc.errors, error) ELSE acc.errors])

\* validateStream over the lines the files hold
validateLines(lines) ==
  LET r == ValidateLines(lines, 1,
             [totalChecked |-> 0, previousHash |-> NullHash, errors |-> <<>>])
  IN [valid |-> Len(r.errors) = 0, totalChecked |-> r.totalChecked,
      errors |-> r.errors]

validateStream(fs) == validateLines(StreamLines(fs))

RECURSIVE VerifyLines(_, _, _)
\* the loop of ContinuityStore.verifyIntegrity from line i on; acc: checked,
\* previousHash and errors so far.  No line is skipped for its text: the
\* header parses and has no _integrity.  A previous of "genesis" passes the
\* chain test wherever it stands, and a line may add both errors.
VerifyLines(lines, i, acc) ==
  IF i > Len(lines) THEN acc
  ELSE LET line == lines[i] IN
       IF line.kind = "torn"
       THEN VerifyLines(lines, i + 1,
              [acc EXCEPT !.errors = Append(@,
                 [sequence |-> acc.checked, type |-> "invalid_json"])])
       ELSE IF ~line.integrity
       THEN VerifyLines(lines, i + 1, [acc EXCEPT !.checked = @ + 1])
       ELSE LET broken ==
                  IF line.previous # Genesis /\ line.previous # acc.previousHash
                  THEN <<[sequence |-> line.sequence, type |-> "chain_break"]>>
                  ELSE <<>>
                mismatch ==
                  IF calculateHash(WithoutIntegrity(line), line.previous)
                       # line.hash
                  THEN <<[sequence |-> line.sequence, type |-> "hash_mismatch"]>>
                  ELSE <<>>
            IN VerifyLines(lines, i + 1,
                 [checked |-> acc.checked + 1,
                  previousHash |-> line.hash,
                  errors |-> acc.errors \o broken \o mismatch])

\* verifyIntegrity(): valid without a look at the files when the
\* configuration has integrity checks off
verifyIntegrity(fs) ==
  IF ~cfg.enableIntegrityCheck
  THEN [valid |-> TRUE, checked |-> 0, errors |-> <<>>]
  ELSE LET r == VerifyLines(StreamLines(fs), 1,
                  [checked |-> 0, previousHash |-> NullHash, errors |-> <<>>])
       IN [valid |-> Len(r.errors) = 0, checked |-> r.checked,
           errors |-> r.errors]

\* --------------------------------------------------- what is on the disk

\* the action entries of the stream, in file order then line order
ActionLines(fs) == SelectSeq(StreamLines(fs), LAMBDA l : l.kind = "action")
HashedLines(fs) == SelectSeq(ActionLines(fs), LAMBDA l : l.integrity)

InStream(id) == \E i \in 1..Len(ActionLines(files)) : ActionLines(files)[i].id = id
InEmergencyLog(id) == \E i \in 1..Len(emergencyLog) : emergencyLog[i] = id

\* the entry lies within the fsync'd part of a stream file; no line of the
\* emergency log is ever fsync'd
IsDurable(id) ==
  \E d \in Days : \E i \in 1..files[d].durable :
    files[d].lines[i].kind = "action" /\ files[d].lines[i].id = id

\* ------------------------------------------------------- SessionRestorer

\* getRecentActions(limit): the last lines of the file at currentStreamPath,
\* the header line among them; [] without a path or when the read fails
getRecentActions(limit) ==
  IF currentStreamPath = NoPath THEN <<>>
  ELSE IF ~files[currentStreamPath].exists THEN <<>>
  ELSE LET lines == files[currentStreamPath].lines
           n == Len(lines)
       IN SubSeq(lines, MathMax(1, n - limit + 1), n)

\* getLastActionTime: recentActions[0]?.timestamp || null
getLastActionTime ==
  LET recentActions == getRecentActions(1) IN
  IF recentActions = <<>> THEN NoTimestamp ELSE recentActions[1].timestamp

\* queryActions({since, limit}): the lines of every stream file, oldest file
\* first; a header line has no timestamp and passes the since filter
queryActions(since, limit) ==
  LET kept == SelectSeq(StreamLines(files),
                LAMBDA a : a.timestamp = NoTimestamp \/ a.timestamp >= since)
  IN IF Len(kept) > limit THEN SubSeq(kept, 1, limit) ELSE kept

NoContext == [present |-> FALSE, totalActions |-> 0]

\* getRecentActivitySummary(hoursBack)
getRecentActivitySummary(hoursBack) ==
  [present |-> TRUE,
   totalActions |-> Len(queryActions(Now - hoursBack * 60, 1000))]

\* gapMinutes: Infinity, or the minutes since the last activity
Infinity == [finite |-> FALSE, minutes |-> 0]
Minutes(n) == [finite |-> TRUE, minutes |-> n]

detectImplicitResumption(thresholdMinutes) ==
  LET lastActivityTime == getLastActionTime
      gapMinutes == Now - lastActivityTime
  IN IF lastActivityTime = NoTimestamp
     THEN [shouldRestore |-> FALSE, lastActivityTime |-> NoTimestamp,
           gapMinutes |-> Infinity, thresholdMinutes |-> thresholdMinutes,
           recentContext |-> NoContext]
     ELSE IF gapMinutes < thresholdMinutes
     THEN [shouldRestore |-> TRUE, lastActivityTime |-> lastActivityTime,
           gapMinutes |-> Minutes(gapMinutes),
           thresholdMinutes |-> thresholdMinutes,
           recentContext |-> getRecentActivitySummary(1)]
     ELSE [shouldRestore |-> FALSE, lastActivityTime |-> lastActivityTime,
           gapMinutes |-> Minutes(gapMinutes),
           thresholdMinutes |-> thresholdMinutes,
           recentContext |-> NoContext]

\* restoreContext(sessionId): the actions of queryActions({limit: 100})
\* whose sessionId is the one asked for; null when there is none
restoreContext(sessionId) ==
  LET sessionActions == queryActions(NoTimestamp, 100)
      actions == SelectSeq(sessionActions, LAMBDA a : a.sessionId = sessionId)
  IN IF Len(actions) = 0 THEN "null" ELSE "restored"

\* restoreContext(sessionId).recentActions: actions.slice(-10) of the
\* filtered result of queryActions({limit: 100})
recentActions(sessionId) ==
  LET sessionActions == queryActions(NoTimestamp, 100)
      actions == SelectSeq(sessionActions, LAMBDA a : a.sessionId = sessionId)
      n == Len(actions)
  IN SubSeq(actions, MathMax(1, n - 10 + 1), n)

\* initializeContinuity assigns the restorer after store.initialize() has
\* resolved; shutdownContinuity clears it together with the store
sessionRestorer == store = "set" /\ initialized

\* store.config.implicitResumeThresholdMinutes || 30
thresholdMinutes ==
  IF cfg.implicitResumeThresholdMinutes # 0
  THEN cfg.implicitResumeThresholdMinutes ELSE DEFAULT_THRESHOLD_MINUTES

\* before_agent_start up to its first await of logAction.  resumedFrom:
\* "none" (null) or a session id.  The reads of restoreContext and of
\* detectImplicitResumption touch nothing a writer changes in between.
BeforeAgentStart(p, resumedFrom) ==
  /\ ~InFlight(p)
  /\ LET returns == [IdleCall EXCEPT !.pc = "done", !.caller = "agent_start"]
         implicitResult == detectImplicitResumption(thresholdMinutes)
     IN IF store = "null" \/ cfg.logLevel = "off"
        THEN /\ calls' = [calls EXCEPT ![p] = returns]
             /\ UNCHANGED <<cfg, checkpointVars, writerVars, diskVars, clockVars,
                            closing, store, nextId, faults>>
        ELSE IF /\ resumedFrom # "none"
                /\ sessionRestorer
                /\ restoreContext(resumedFrom) # "null"
        THEN /\ nextId + 1 < MaxCalls
             /\ LogActionCall(p, "plain", "explicit_restore")
        ELSE IF /\ resumedFrom = "none"
                /\ sessionRestorer
                /\ implicitResult.shouldRestore
                /\ implicitResult.recentContext.present
        THEN /\ nextId + 1 < MaxCalls
             /\ LogActionCall(p, "plain", "implicit_restore")
        ELSE LogActionCall(p, "plain", "agent_start")

\* the rest of before_agent_start once the restore entry's logAction has
\* settled: ctx.continuityContext is assigned, then `await
\* store?.logAction(action)` of the agent_start entry
BeforeAgentStartLog(p) ==
  /\ HookContinues(calls[p])
  /\ LET context == IF calls[p].caller = "implicit_restore"
                    THEN "implicit" ELSE "explicit"
         e == NewEntry(nextId + 1, "plain", "agent_start")
         c == [IdleCall EXCEPT !.entry = e, !.pre = state,
                               !.caller = "agent_start", !.context = context]
     IN IF store = "null"
        THEN /\ calls' = [calls EXCEPT ![p] =
                  [IdleCall EXCEPT !.pc = "done", !.caller = "agent_start",
                                   !.context = context]]
             /\ UNCHANGED nextId
        ELSE /\ nextId < MaxCalls
             /\ nextId' = nextId + 1
             /\ calls' = [calls EXCEPT ![p] = logActionEntry(c)]
  /\ UNCHANGED <<cfg, checkpointVars, writerVars, diskVars, clockVars, closing,
                 store, faults>>

\* message_received up to its await of logAction: nothing without a store
\* or with logging off; the entry's timestamp is the event's when it has one
\* (NoTimestamp: it has none), else the clock's
MessageReceived(p, eventTimestamp) ==
  /\ ~InFlight(p)
  /\ LET returns == [IdleCall EXCEPT !.pc = "done", !.caller = "message_received"]
         timestamp == IF eventTimestamp # NoTimestamp THEN eventTimestamp
                      ELSE Now
         e == [NewEntry(nextId + 1, "plain", "message_received")
                 EXCEPT !.timestamp = timestamp]
         c == [IdleCall EXCEPT !.entry = e, !.pre = state,
                               !.caller = "message_received"]
     IN IF store = "null" \/ cfg.logLevel = "off"
        THEN /\ calls' = [calls EXCEPT ![p] = returns]
             /\ UNCHANGED nextId
        ELSE /\ nextId < MaxCalls
             /\ nextId' = nextId + 1
             /\ calls' = [calls EXCEPT ![p] = logActionEntry(c)]
  /\ UNCHANGED <<cfg, checkpointVars, writerVars, diskVars, clockVars, closing,
                 store, faults>>

\* a minute passes
Advance ==
  /\ minute < MinutesPerDay - 1
  /\ minute' = minute + 1
  /\ UNCHANGED <<cfg, checkpointVars, writerVars, diskVars, today, calls,
                 closing, store, nextId, faults>>

\* initializeContinuity constructs the checkpoint manager, when the
\* configuration enables checkpoints, after store.initialize() has resolved;
\* shutdownContinuity clears it together with the store
checkpointManager ==
  store = "set" /\ initialized /\ cfg.enablePreCompactionCheckpoint

\* the second half of before_compaction: nothing without a store or with
\* logging off, else `await store.logAction(action).catch(...)` of the
\* compaction entry; c: the handler's record so far
BeforeCompactionLog(p, c) ==
  IF store = "null" \/ cfg.logLevel = "off"
  THEN /\ calls' = [calls EXCEPT ![p] = [c EXCEPT !.pc = "done"]]
       /\ UNCHANGED nextId
  ELSE /\ nextId < MaxCalls
       /\ nextId' = nextId + 1
       /\ calls' = [calls EXCEPT ![p] =
            logActionEntry([c EXCEPT
              !.entry = NewEntry(nextId + 1, "plain", "compaction"),
              !.pre = state])]

\* before_compaction up to its first await: with a checkpoint manager and
\* checkpoints enabled that is createCheckpoint({timestamp: getTimestamp(),
\* messageCount, ...}); otherwise the handler goes on to the entry at once
BeforeCompaction(p, messageCount) ==
  /\ ~InFlight(p)
  /\ LET c == [IdleCall EXCEPT !.caller = "compaction"]
     IN IF checkpointManager /\ store # "null"
           /\ cfg.enablePreCompactionCheckpoint
        THEN /\ calls' = [calls EXCEPT ![p] =
                  [c EXCEPT !.pc = "checkpoint",
                            !.checkpoint =
                              [NoCheckpoint EXCEPT
                                 !.timestamp = getTimestamp,
                                 !.messageCount = messageCount]]]
             /\ UNCHANGED nextId
        ELSE BeforeCompactionLog(p, c)
  /\ UNCHANGED <<cfg, checkpointVars, writerVars, diskVars, clockVars, closing,
                 store, faults>>

\* BeforeCompactionCheckpoint without the try around createCheckpoint: the
\* throw rejects the handler
BeforeCompactionCheckpointUncaught(p, outcome) ==
  /\ calls[p].pc = "checkpoint"
  /\ LET asked == calls[p].checkpoint IN
     IF outcome = "created"
     THEN /\ createCheckpoint(asked.timestamp, asked.messageCount)
          /\ BeforeCompactionLog(p,
               [calls[p] EXCEPT !.context = "checkpoint_created",
                                !.checkpoint.checkpointId = created + 1])
          /\ UNCHANGED faults
     ELSE /\ CanFail
          /\ Fail
          /\ createCheckpointThrows(asked.timestamp, outcome)
          /\ calls' = [calls EXCEPT ![p] =
               [calls[p] EXCEPT !.pc = "done", !.hook = "rejected",
                                !.context = "checkpoint_failed"]]
          /\ UNCHANGED nextId
  /\ UNCHANGED <<cfg, writerVars, diskVars, clockVars, closing, store>>

\* createCheckpoint settles and the handler goes on in the same turn: a
\* checkpoint that was created is logged at info, one that threw is caught
\* and logged at error; either way the compaction entry comes next
\* outcome: "created", or where createCheckpoint threw
BeforeCompactionCheckpoint(p, outcome) ==
  /\ calls[p].pc = "checkpoint"
  /\ LET asked == calls[p].checkpoint IN
     IF outcome = "created"
     THEN /\ createCheckpoint(asked.timestamp, asked.messageCount)
          /\ BeforeCompactionLog(p,
               [calls[p] EXCEPT !.context = "checkpoint_created",
                                !.checkpoint.checkpointId = created + 1])
          /\ UNCHANGED faults
     ELSE /\ CanFail
          /\ Fail
          /\ createCheckpointThrows(asked.timestamp, outcome)
          /\ BeforeCompactionLog(p,
               [calls[p] EXCEPT !.context = "checkpoint_failed"])
  /\ UNCHANGED <<cfg, writerVars, diskVars, clockVars, closing, store>>

\* ----------------------------------------------------------- specifications
\* the state after construction, on an empty storage directory; configs: the
\* configurations the host may give, f: the failures already used up,
\* manifests: what an earlier process may have left of the manifest
InitOf(configs, f, manifests) ==
  /\ cfg \in configs
  /\ state = FreshState
  /\ currentStreamPath = NoPath
  /\ emergencyMode = FALSE
  /\ initialized = FALSE
  /\ files = [d \in Days |-> NoFile]
  /\ emergencyLog = <<>>
  /\ stateFile = NoStateFile
  /\ today = 1
  /\ minute = 0
  /\ calls = [p \in Procs |-> IdleCall]
  /\ closing = NotClosing
  /\ store = "null"
  /\ nextId = 0
  /\ faults = f
  /\ checkpointFiles = <<>>
  /\ manifestFile \in manifests
  /\ checkpointOp = NoCheckpointOp
  /\ created = 0

InitWith(configs, f) == InitOf(configs, f, {NoManifest})

Init ==
  InitWith({c \in Configs : /\ c.blockOnPersistenceFailure
                           /\ c.logLevel # "judgment"
                           /\ c.implicitResumeThresholdMinutes = DEFAULT_THRESHOLD_MINUTES}, 0)

\* the writer driven directly, one operation at a time
Next ==
  \/ Quiescent /\ Initialize
  \/ Quiescent /\ CloseCall
  \/ CloseDone
  \/ Quiescent /\ \E payload \in Payloads : LogActionCall(1, payload, "direct")
  \/ LogActionDiskCheck(1)
  \/ LogActionHeader(1)
  \/ LogActionAppend(1)
  \/ LogActionFsync(1)
  \/ LogActionEmergency(1)
  \/ LogActionReturn(1)
  \/ Quiescent /\ Tick
  \/ Quiescent /\ Crash

Spec == Init /\ [][Next]_vars


\* one writer instance for the whole behaviour: no process end
NextOneWriter ==
  \/ Quiescent /\ Initialize
  \/ Quiescent /\ CloseCall
  \/ CloseDone
  \/ Quiescent /\ \E payload \in Payloads : LogActionCall(1, payload, "direct")
  \/ LogActionDiskCheck(1)
  \/ LogActionHeader(1)
  \/ LogActionAppend(1)
  \/ LogActionFsync(1)
  \/ LogActionEmergency(1)
  \/ LogActionReturn(1)
  \/ Quiescent /\ Tick

SpecOneWriter == Init /\ [][NextOneWriter]_vars

\* Overlapping logAction calls of several host events on one initialized
\* writer, integrity on, no filesystem failure: the steps of the calls
\* interleave at the await points.
InitConc ==
  InitWith({c \in Configs : /\ c.logLevel = "everything"
                            /\ c.enableIntegrityCheck
                            /\ c.blockOnPersistenceFailure
                            /\ c.implicitResumeThresholdMinutes = DEFAULT_THRESHOLD_MINUTES},
           MaxFaults)

NextConc ==
  \/ Quiescent /\ Initialize
  \/ \E p \in Procs : \E payload \in {"plain"} : LogActionCall(p, payload, "direct")
  \/ \E p \in Procs : LogActionDiskCheck(p)
  \/ \E p \in Procs : LogActionHeader(p)
  \/ \E p \in Procs : LogActionAppend(p)
  \/ \E p \in Procs : LogActionFsync(p)
  \/ \E p \in Procs : LogActionEmergency(p)
  \/ \E p \in Procs : LogActionReturn(p)
  \/ Tick

SpecConc == InitConc /\ [][NextConc]_vars

\* the plugin driven by host events, one hook at a time; shutdown.pre may come
\* while a hook's logAction is in flight
InitPlugin ==
  InitWith({c \in Configs : /\ c.enableIntegrityCheck
                           /\ c.implicitResumeThresholdMinutes = DEFAULT_THRESHOLD_MINUTES}, 0)

NextPlugin ==
  \/ BootPost
  \/ BootInitialize
  \/ ShutdownPre
  \/ CloseDone
  \/ \E critical \in BOOLEAN : \E payload \in {"plain", "unser"} :
       BeforeToolCall(1, critical, payload)
  \/ LogActionDiskCheck(1)
  \/ LogActionHeader(1)
  \/ LogActionAppend(1)
  \/ LogActionFsync(1)
  \/ LogActionEmergency(1)
  \/ LogActionReturn(1)
  \/ Tick

SpecPlugin == InitPlugin /\ [][NextPlugin]_vars

\* The plugin across restarts and midnights, one host event at a time, on a
\* filesystem whose operations succeed: tool calls and agent starts, with
\* every configured threshold.
InitSession ==
  InitWith({c \in Configs : /\ c.logLevel = "everything"
                           /\ c.enableIntegrityCheck
                           /\ c.blockOnPersistenceFailure}, MaxFaults)

NextSession ==
  \/ BootPost
  \/ BootInitialize
  \/ Quiescent /\ ShutdownPre
  \/ CloseDone
  \/ closing.pc = "idle" /\ BeforeToolCall(1, TRUE, "plain")
  \/ \E resumedFrom \in {"none"} \cup HostSessions :
       closing.pc = "idle" /\ BeforeAgentStart(1, resumedFrom)
  \/ BeforeAgentStartLog(1)
  \/ LogActionDiskCheck(1)
  \/ LogActionHeader(1)
  \/ LogActionAppend(1)
  \/ LogActionFsync(1)
  \/ LogActionEmergency(1)
  \/ LogActionReturn(1)
  \/ Quiescent /\ Advance
  \/ Quiescent /\ Tick

SpecSession == InitSession /\ [][NextSession]_vars

\* The same events with the default threshold on a filesystem whose
\* operations may fail.
InitSessionFaults ==
  InitWith({c \in Configs : /\ c.logLevel = "everything"
                           /\ c.enableIntegrityCheck
                           /\ c.blockOnPersistenceFailure
                           /\ c.implicitResumeThresholdMinutes = DEFAULT_THRESHOLD_MINUTES},
           0)

SpecSessionFaults == InitSessionFaults /\ [][NextSession]_vars

\* The plugin while the clock runs, also between the steps of a call, on a
\* filesystem whose operations succeed: tool calls stamped by the clock and
\* messages stamped by their event, which may be older than the clock.
EventTimestamps == {NoTimestamp} \cup {t \in 0..(MaxDay * MinutesPerDay - 1) : t <= Now}

NextMessages ==
  \/ BootPost
  \/ BootInitialize
  \/ BeforeToolCall(1, TRUE, "plain")
  \/ \E eventTimestamp \in EventTimestamps : MessageReceived(1, eventTimestamp)
  \/ LogActionDiskCheck(1)
  \/ LogActionHeader(1)
  \/ LogActionAppend(1)
  \/ LogActionFsync(1)
  \/ LogActionEmergency(1)
  \/ LogActionReturn(1)
  \/ Advance
  \/ Tick

SpecMessages == InitConc /\ [][NextMessages]_vars

\* the checkpoint manager driven directly, one operation at a time, on a
\* filesystem whose operations succeed; a process killed in a manifest write
\* may have left a manifest that does not parse
InitCheckpoint ==
  InitOf({c \in Configs : /\ c.logLevel = "everything"
                          /\ c.enableIntegrityCheck
                          /\ c.blockOnPersistenceFailure
                          /\ c.implicitResumeThresholdMinutes = DEFAULT_THRESHOLD_MINUTES},
         MaxFaults, {NoManifest, TornManifest})

NextCheckpoint ==
  \/ \E messageCount \in MessageCounts :
       \E timestamp \in Timestamps(created + 1) :
         CreateCheckpoint(timestamp, messageCount)
  \/ \E id \in {created, created - 1} : MarkRecovered(id)

SpecCheckpoint == InitCheckpoint /\ [][NextCheckpoint]_vars

\* The compaction hook across restarts, one host event at a time, with
\* checkpoints enabled or not and logging on or off, on a filesystem whose
\* operations may fail.
InitCompaction ==
  InitWith({[c EXCEPT !.enablePreCompactionCheckpoint = enabled] :
              c \in {k \in Configs :
                       /\ k.logLevel \in {"off", "everything"}
                       /\ k.enableIntegrityCheck
                       /\ k.blockOnPersistenceFailure
                       /\ k.implicitResumeThresholdMinutes =
                            DEFAULT_THRESHOLD_MINUTES},
              enabled \in BOOLEAN}, 0)

NextCompaction ==
  \/ BootPost
  \/ BootInitialize
  \/ Quiescent /\ ShutdownPre
  \/ CloseDone
  \/ \E messageCount \in {0, 101} :
       closing.pc = "idle" /\ BeforeCompaction(1, messageCount)
  \/ \E outcome \in {"created", "checkpoint", "manifest"} :
       BeforeCompactionCheckpoint(1, outcome)
  \/ LogActionDiskCheck(1)
  \/ LogActionHeader(1)
  \/ LogActionAppend(1)
  \/ LogActionFsync(1)
  \/ LogActionEmergency(1)
  \/ LogActionReturn(1)
  \/ Quiescent /\ Tick

SpecCompaction == InitCompaction /\ [][NextCompaction]_vars

\* The restorer on a storage directory an earlier process left behind: a
\* stream of one file whose entries were logged with a session id, `older`
\* entries of another session, then `mine` of the session resumed from, then
\* `newer` of the other session again, written with integrity off.
OtherSession == "session-2"

PriorEntry(i, sessionId) ==
  [NoAction EXCEPT !.id = 0 - i, !.sequence = i, !.type = "tool_call",
                   !.timestamp = 0, !.sessionId = sessionId]

PriorStream(older, mine, newer) ==
  <<HeaderLine>>
  \o [i \in 1..(older + mine + newer) |->
        PriorEntry(i, IF i > older /\ i <= older + mine
                      THEN CHOOSE sessionId \in HostSessions : TRUE
                      ELSE OtherSession)]

OlderCounts == {0, 1, 89, 90, 98, 99, 100}
MineCounts == {0, 1, 10, 11}
NewerCounts == {0, 1, 89, 90, 99, 100}

InitRestore ==
  /\ cfg \in {c \in Configs : /\ c.logLevel = "everything"
                              /\ ~c.enableIntegrityCheck
                              /\ c.blockOnPersistenceFailure
                              /\ c.implicitResumeThresholdMinutes =
                                   DEFAULT_THRESHOLD_MINUTES}
  /\ state = FreshState
  /\ currentStreamPath = NoPath
  /\ emergencyMode = FALSE
  /\ initialized = FALSE
  /\ \E older \in OlderCounts : \E mine \in MineCounts :
       \E newer \in NewerCounts :
         LET lines == PriorStream(older, mine, newer) IN
         /\ files = [d \in Days |->
                      IF d = 1
                      THEN [exists |-> TRUE, lines |-> lines,
                            durable |-> Len(lines)]
                      ELSE NoFile]
         /\ stateFile = [present |-> TRUE, sequence |-> Len(lines) - 1,
                         lastHash |-> NullHash]
  /\ emergencyLog = <<>>
  /\ today = 1
  /\ minute = 0
  /\ calls = [p \in Procs |-> IdleCall]
  /\ closing = NotClosing
  /\ store = "null"
  /\ nextId = 0
  /\ faults = MaxFaults
  /\ checkpointFiles = <<>>
  /\ manifestFile = NoManifest
  /\ checkpointOp = NoCheckpointOp
  /\ created = 0

NextRestore ==
  \/ BootPost
  \/ BootInitialize
  \/ \E resumedFrom \in {"none"} \cup HostSessions :
       BeforeAgentStart(1, resumedFrom)
  \/ BeforeAgentStartLog(1)
  \/ LogActionDiskCheck(1)
  \/ LogActionAppend(1)
  \/ LogActionFsync(1)
  \/ LogActionEmergency(1)
  \/ LogActionReturn(1)

SpecRestore == InitRestore /\ [][NextRestore]_vars

\* Tool calls and their results, one tool at a time, across restarts and
\* midnights, on a filesystem whose operations may fail.
InitTools ==
  InitWith({c \in Configs : /\ c.logLevel \in {"judgment", "everything"}
                           /\ c.enableIntegrityCheck
                           /\ c.implicitResumeThresholdMinutes =
                                DEFAULT_THRESHOLD_MINUTES}, 0)

NextTools ==
  \/ BootPost
  \/ BootInitialize
  \/ Quiescent /\ ShutdownPre
  \/ CloseDone
  \/ \E critical \in BOOLEAN :
       closing.pc = "idle" /\ BeforeToolCall(1, critical, "plain")
  \/ closing.pc = "idle" /\ AfterToolCall(1)
  \/ LogActionDiskCheck(1)
  \/ LogActionHeader(1)
  \/ LogActionAppend(1)
  \/ LogActionFsync(1)
  \/ LogActionEmergency(1)
  \/ LogActionReturn(1)
  \/ Tick

SpecTools == InitTools /\ [][NextTools]_vars

\* ------------------------------------------------------------------ claims

\* C1: over any sequence of non-overlapping writer operations (initialize,
\* logAction, rotation, close, re-initialize, appends whose write or fsync
\* fails included), the action entries of the stream files, in file order
\* then line order, carry the sequence numbers 1, 2, ..., N.
C1_SequencesContiguous ==
  \A i \in 1..Len(ActionLines(files)) : ActionLines(files)[i].sequence = i

\* C2: with integrity checking on, every entry with _integrity has `previous`
\* equal to the hash of the hash-enabled entry just before it on disk, and the
\* first hash-enabled entry has previous = "genesis".
C2_ChainIntact ==
  cfg.enableIntegrityCheck =>
    LET h == HashedLines(files) IN
    \A i \in 1..Len(h) :
      h[i].previous = IF i = 1 THEN Genesis ELSE h[i - 1].hash

\* C3: whenever logAction returns true for an entry (logging not off), the
\* entry has been appended to a file and fsync'd before the return.
C3_TrueMeansFsynced ==
  \A p \in Procs :
    (calls[p].pc = "done" /\ calls[p].result = "true" /\ cfg.logLevel # "off")
      => IsDurable(calls[p].entry.id)

\* C4: overlapping logAction calls are serialized: no two entries on disk get
\* the same sequence number or the same previous hash, and the entries lie on
\* disk in the order of their sequence numbers.
C4_OverlapSerialized ==
  LET a == ActionLines(files) IN
  \A i, j \in 1..Len(a) :
    i < j => /\ a[i].sequence < a[j].sequence
             /\ a[i].previous # a[j].previous


AllPlain(lines) == \A i \in 1..Len(lines) : lines[i].kind = "action" => lines[i].payload = "plain"

\* C6: after a kill without close(), a new writer that initializes and
\* appends one more entry leaves a stream for which validateStream returns
\* valid = true and totalChecked = N + 1.  (No filesystem failure, no
\* .state.json since close() never ran, entries without a _header key.)
C6_CrashRecovery ==
  \A p \in Procs :
    (/\ cfg.enableIntegrityCheck
     /\ faults = 0
     /\ ~stateFile.present
     /\ AllPlain(StreamLines(files))
     /\ calls[p].pc = "done"
     /\ calls[p].via = "stream")
    => LET r == validateStream(files)
       IN r.valid /\ r.totalChecked = Len(ActionLines(files))

\* C7: for a stream produced by N successful sequential appends with
\* integrity on, with any close()/re-initialize cycles in between,
\* validateStream returns valid = true, no errors, totalChecked = N.
C7_WriterValidatorAgree ==
  (cfg.enableIntegrityCheck /\ faults = 0 /\ Quiescent)
    => LET r == validateStream(files)
       IN /\ r.valid
          /\ r.errors = <<>>
          /\ r.totalChecked = Len(ActionLines(files))

\* C7 for entries none of which holds a key _header: the writer and the
\* validator agree
C7_AgreeOnPlainEntries ==
  (cfg.enableIntegrityCheck /\ faults = 0 /\ Quiescent
     /\ AllPlain(StreamLines(files)))
    => LET r == validateStream(files)
       IN /\ r.valid
          /\ r.errors = <<>>
          /\ r.totalChecked = Len(ActionLines(files))

\* ------------------------------------------------------------- tampering
IsEntry(lines, i) == lines[i].kind = "action" /\ lines[i].integrity
EntryPositions(lines) == {i \in 1..Len(lines) : IsEntry(lines, i)}
Max(S) == CHOOSE x \in S : \A y \in S : y <= x
Min(S) == CHOOSE x \in S : \A y \in S : x <= y

\* the stored hash of entry i replaced by another value
WithHash(lines, i, h) == [lines EXCEPT ![i].hash = h]
\* the content of entry i changed: another payload text, or another sequence
WithPayload(lines, i, pl) == [lines EXCEPT ![i].payload = pl]
WithSequence(lines, i, n) == [lines EXCEPT ![i].sequence = n]
\* line i removed
WithoutLine(lines, i) ==
  SubSeq(lines, 1, i - 1) \o SubSeq(lines, i + 1, Len(lines))

Detected(report) ==
  /\ ~report.valid
  /\ \E k \in 1..Len(report.errors) :
       report.errors[k].type \in {"hash_mismatch", "chain_break"}

OtherHashes(lines, i) ==
  ({ForgedHash, Genesis} \cup {lines[k].hash : k \in EntryPositions(lines)})
    \ {lines[i].hash}

TamperDetected(lines) ==
  LET E == EntryPositions(lines) IN
  /\ \A i \in E : \A h \in OtherHashes(lines, i) :
       Detected(validateLines(WithHash(lines, i, h)))
  /\ \A i \in E \ {Max(E)} :
       /\ \A pl \in {"tampered", "hdrkey"} \ {lines[i].payload} :
            Detected(validateLines(WithPayload(lines, i, pl)))
       /\ Detected(validateLines(WithSequence(lines, i, lines[i].sequence + 1)))
  /\ \A i \in E \ {Min(E), Max(E)} :
       Detected(validateLines(WithoutLine(lines, i)))

\* C8: from a valid chained stream of at least three hash-enabled entries,
\* changing the stored hash of any entry, changing the content of any entry
\* but the last, or deleting any middle entry line makes validateStream
\* return valid = false with a hash_mismatch or chain_break error.
C8_TamperDetection ==
  LET lines == StreamLines(files) IN
  (Quiescent /\ Cardinality(EntryPositions(lines)) >= 3 /\ validateLines(lines).valid)
    => TamperDetected(lines)

\* C8 for streams none of whose entries holds a key _header
C8_TamperDetectionOnPlainEntries ==
  LET lines == StreamLines(files) IN
  (Quiescent /\ Cardinality(EntryPositions(lines)) >= 3 /\ validateLines(lines).valid
     /\ AllPlain(lines))
    => TamperDetected(lines)

\* C9: when the primary append path fails (low disk space, or the append or
\* the fsync throws), logAction returns true exactly when the entry was
\* written to EMERGENCY_RECOVERY.jsonl, and state.sequence and state.lastHash
\* are what they were before the call.
C9_EmergencyFallback ==
  \A p \in Procs :
    (calls[p].pc = "done" /\ calls[p].failed \in {"lowdisk", "append", "fsync"})
      => /\ calls[p].result \in {"true", "false"}
         /\ (calls[p].result = "true") <=> InEmergencyLog(calls[p].entry.id)
         /\ state = calls[p].pre

\* a call whose fsync threw has returned true with its entry in the emergency log
C9_Witness ==
  \E p \in Procs :
    /\ calls[p].pc = "done"
    /\ calls[p].failed = "fsync"
    /\ calls[p].result = "true"
    /\ InEmergencyLog(calls[p].entry.id)

\* C10: once emergency mode is set, every later logAction on that writer,
\* whatever the free space and also after close() and initialize(), goes to
\* the emergency log, appends nothing to a stream file and leaves
\* state.sequence unchanged; only a newly constructed writer leaves
\* emergency mode.
C10_EmergencyLatches ==
  [][emergencyMode =>
       \/ Crash
       \/ /\ emergencyMode'
          /\ (calls' # calls) =>
               /\ \A d \in Days : files'[d].lines = files[d].lines
               /\ state'.sequence = state.sequence
               /\ \A p \in Procs :
                    (calls[p].pc = "idle" /\ calls'[p].pc # "idle"
                       /\ initialized /\ cfg.logLevel # "off")
                    => calls'[p].failed = "latched"
               /\ \A p \in Procs :
                    calls'[p].pc = "done" /\ calls[p].pc # "done"
                       /\ calls'[p].result = "true" /\ cfg.logLevel # "off"
                    => InEmergencyLog(calls[p].entry.id)'
     ]_vars

\* in emergency mode, after a close(), a later call has been sent to the
\* emergency log by the latch and has returned true
C10_Witness ==
  \E p \in Procs :
    /\ emergencyMode
    /\ stateFile.present
    /\ calls[p].pc = "done"
    /\ calls[p].failed = "latched"
    /\ calls[p].result = "true"


\* C5: with blockOnPersistenceFailure true and logging not off, whenever
\* before_tool_call returns for a critical tool without telling the host to
\* block, a tool_call entry of that call has been written to the stream or to
\* the emergency log; in every plugin state, before boot.post and after
\* shutdown.pre included.
C5_PassMeansRecorded ==
  \A p \in Procs :
    (/\ cfg.blockOnPersistenceFailure
     /\ cfg.logLevel # "off"
     /\ calls[p].pc = "done"
     /\ calls[p].caller = "tool_critical"
     /\ calls[p].hook = "pass")
    => InStream(calls[p].entry.id) \/ InEmergencyLog(calls[p].entry.id)

\* C5 while the plugin holds a store
C5_PassMeansRecordedWithStore ==
  \A p \in Procs :
    (/\ cfg.blockOnPersistenceFailure
     /\ cfg.logLevel # "off"
     /\ store # "null"
     /\ calls[p].pc = "done"
     /\ calls[p].caller = "tool_critical"
     /\ calls[p].hook = "pass")
    => InStream(calls[p].entry.id) \/ InEmergencyLog(calls[p].entry.id)

\* C11: logAction never raises: for every entry and every failure of a
\* filesystem step, the header write of a day rotation and the serialization
\* of the entry for its hash included, the call resolves to a boolean.
C11_NeverRejects ==
  \A p \in Procs :
    calls[p].pc = "done" => calls[p].result \in {"true", "false"}

\* C12: with logLevel off, logAction returns true in every writer state and
\* leaves the stream files, the emergency log, state.sequence, state.lastHash
\* and the emergency flag unchanged.
C12_OffIsNoOp ==
  [][\A p \in Procs :
       (cfg.logLevel = "off" /\ calls[p].pc = "idle" /\ calls'[p].pc # "idle")
         => /\ calls'[p].pc = "done"
            /\ calls'[p].result = "true"
            /\ files' = files
            /\ emergencyLog' = emergencyLog
            /\ state' = state
            /\ emergencyMode' = emergencyMode
     ]_vars

\* with logging off, a call on a writer that was closed has returned true
C12_Witness ==
  \E p \in Procs :
    /\ cfg.logLevel = "off"
    /\ ~initialized
    /\ stateFile.present
    /\ calls[p].pc = "done"
    /\ calls[p].result = "true"


\* ---------------------------------------------------------------- rotation
\* the action entries of one day's file
DayActions(d) ==
  SelectSeq(IF files[d].exists THEN files[d].lines ELSE <<>>,
            LAMBDA l : l.kind = "action")

BeginsWithHeader(d) ==
  files[d].exists /\ Len(files[d].lines) >= 1 /\ files[d].lines[1] = HeaderLine

\* every entry of the stream is of an append that succeeded: none was routed
\* to the emergency log after its line was written
OnlySuccessfulAppends ==
  \A i \in 1..Len(ActionLines(files)) : ~InEmergencyLog(ActionLines(files)[i].id)

\* a successful append has just put the first entry into the file of day d2,
\* and the successful append before it went to the file of the earlier day d1
AppendedAcrossDays(p, d1, d2) ==
  /\ calls[p].pc = "done"
  /\ calls[p].via = "stream"
  /\ d1 < d2
  /\ OnlySuccessfulAppends
  /\ DayActions(d1) # <<>>
  /\ Len(DayActions(d2)) = 1
  /\ DayActions(d2)[1].id = calls[p].entry.id
  /\ \A d \in Days : (d1 < d /\ d < d2) => DayActions(d) = <<>>

RotationHolds(d1, d2) ==
  LET first == DayActions(d1)[Len(DayActions(d1))]
      second == DayActions(d2)[1]
  IN /\ BeginsWithHeader(d1)
     /\ BeginsWithHeader(d2)
     /\ second.sequence = first.sequence + 1
     /\ second.previous = first.hash
     /\ validateStream(files).valid

\* C13: when two successful appends are separated by a UTC day boundary, two
\* stream files exist, each begins with a header line, the second entry's
\* sequence is the first's plus one, its previous is the first entry's hash,
\* and validateStream over both files returns valid = true.
C13_Rotation ==
  \A p \in Procs : \A d1, d2 \in Days :
    (cfg.enableIntegrityCheck /\ AppendedAcrossDays(p, d1, d2))
      => RotationHolds(d1, d2)

\* C13 when no filesystem step has failed and no entry holds a key _header
C13_RotationWithoutFailure ==
  \A p \in Procs : \A d1, d2 \in Days :
    (cfg.enableIntegrityCheck /\ AppendedAcrossDays(p, d1, d2)
       /\ faults = 0 /\ AllPlain(StreamLines(files)))
      => RotationHolds(d1, d2)

\* ---------------------------------------------------------- state agreement
\* the highest sequence number of an entry in the stream files, 0 when none
MaxSequenceOnDisk(fs) ==
  Max({0} \cup {ActionLines(fs)[i].sequence : i \in 1..Len(ActionLines(fs))})

C15_CleanShutdown ==
  [][(/\ closing.pc = "saving"
      /\ closing.shutdown
      /\ closing'.pc = "idle"
      /\ nextId = closing.issued
      /\ faults' = 0)
     => /\ stateFile'.present
        /\ stateFile'.sequence = state'.sequence
        /\ stateFile'.lastHash = state'.lastHash
        /\ state'.sequence = MaxSequenceOnDisk(files')
    ]_vars

\* -------------------------------------------------------------- checkpoints
CheckpointFileSet(cps) == {cps[i] : i \in 1..Len(cps)}

AsFile(checkpoint) ==
  [checkpointId |-> checkpoint.checkpointId, timestamp |-> checkpoint.timestamp]

LastRecordedAction ==
  LET recorded == ActionLines(files) IN
  IF recorded = <<>> THEN NoAction ELSE recorded[Len(recorded)]

\* C19: called between host events, detectImplicitResumption(t) returns
\* shouldRestore = TRUE exactly when the stream holds a last recorded action,
\* in whichever daily file, and the minutes since its timestamp are fewer
\* than t; with nothing recorded it returns FALSE and an infinite gap.
C19_ImplicitResumption ==
  (sessionRestorer /\ Quiescent) =>
    \A t \in Thresholds :
      LET result == detectImplicitResumption(t)
          last == LastRecordedAction
      IN IF last = NoAction
         THEN ~result.shouldRestore /\ result.gapMinutes = Infinity
         ELSE result.shouldRestore <=> (Now - last.timestamp < t)

\* C19, within one day: when the last recorded action is the last line of
\* the file the writer is at, the answer is the claimed one, a gap equal to
\* t giving FALSE.
C19_WithinTheCurrentFile ==
  (/\ sessionRestorer
   /\ Quiescent
   /\ getRecentActions(1) # <<>>
   /\ getRecentActions(1)[1] = LastRecordedAction) =>
    \A t \in Thresholds :
      LET result == detectImplicitResumption(t) IN
      /\ result.shouldRestore <=> (Now - LastRecordedAction.timestamp < t)
      /\ (Now - LastRecordedAction.timestamp = t) => ~result.shouldRestore

\* ------------------------------------------------------------------ C20
\* C20: with implicitResumeThresholdMinutes = 0 no before_agent_start logs a
\* continuity_implicit_restore entry or attaches a continuityContext.
C20_ZeroDisables ==
  cfg.implicitResumeThresholdMinutes = 0 =>
    /\ \A p \in Procs : /\ calls[p].entry.type # "continuity_implicit_restore"
                        /\ calls[p].context = "none"
    /\ \A i \in 1..Len(ActionLines(files)) :
         ActionLines(files)[i].type # "continuity_implicit_restore"

\* C20, for the thresholds that are set: an agent start restores exactly
\* when the gap is below the configured threshold.
C20_NonZeroThresholdIsUsed ==
  [][\A resumedFrom \in {"none"} \cup HostSessions :
       (/\ BeforeAgentStart(1, resumedFrom)
        /\ cfg.implicitResumeThresholdMinutes # 0
        /\ calls'[1].entry.type = "continuity_implicit_restore")
       => detectImplicitResumption(cfg.implicitResumeThresholdMinutes).shouldRestore]_vars

\* ------------------------------------------------------------------ C21
\* the entries of the stream logged during the host's session S
LoggedDuring(S) == SelectSeq(ActionLines(files), LAMBDA a : a.sessionKey = S)

\* C21: the entries logged during a session carry its identity, and a
\* before_agent_start with resumedFrom = S, handled with the store
\* initialized and logging on while the stream holds entries logged during
\* S, logs a continuity_restore entry.
C21_ExplicitResumption ==
  /\ [](\A S \in HostSessions : \A i \in 1..Len(LoggedDuring(S)) :
          LoggedDuring(S)[i].sessionId = S)
  /\ [][\A S \in HostSessions :
          (/\ BeforeAgentStart(1, S)
           /\ sessionRestorer
           /\ cfg.logLevel # "off"
           /\ LoggedDuring(S) # <<>>)
          => calls'[1].entry.type = "continuity_restore"]_vars

\* ------------------------------------------------------------------ C22
RestoreCallers == {"implicit_restore", "explicit_restore"}
RestoreTypes == {"continuity_implicit_restore", "continuity_restore"}

\* a before_agent_start begins to be handled with the store initialized and
\* logging on
AgentStartHandled ==
  /\ \E resumedFrom \in {"none"} \cup HostSessions : BeforeAgentStart(1, resumedFrom)
  /\ sessionRestorer
  /\ cfg.logLevel # "off"

\* the restore entry of an event and its agent_start entry, by position in
\* the stream: the handler mints their ids one after the other
RestoreBeforeAgentStart ==
  LET recorded == ActionLines(files) IN
  \A i, j \in 1..Len(recorded) :
    (/\ recorded[i].type \in RestoreTypes
     /\ recorded[j].type = "agent_start"
     /\ recorded[j].id = recorded[i].id + 1)
    => i < j /\ recorded[i].sequence < recorded[j].sequence

\* C22: a before_agent_start handled with the store initialized and logging
\* on calls logAction for a restore entry or for agent_start; the handler
\* leaves a settled restore call only by calling logAction for agent_start,
\* and ends after its agent_start call; a restore entry lies in the stream
\* before the agent_start entry of its event, with a lower sequence.
C22_OneAgentStart ==
  /\ [][AgentStartHandled =>
          /\ calls'[1].entry.id = nextId + 1
          /\ calls'[1].caller \in RestoreCallers \cup {"agent_start"}]_vars
  /\ [][(/\ calls[1].caller \in RestoreCallers
          /\ calls[1].pc = "done"
          /\ calls'[1] # calls[1])
         => /\ calls'[1].caller = "agent_start"
            /\ calls'[1].entry.type = "agent_start"
            /\ calls'[1].entry.id = nextId + 1]_vars
  /\ [][(calls[1].caller = "agent_start" /\ calls'[1].caller # "agent_start")
         => calls[1].pc = "done" /\ calls'[1] = IdleCall]_vars
  /\ []RestoreBeforeAgentStart

\* C22 on a filesystem whose operations succeed: an implicit restore entry
\* and the agent_start entry of its event are both in the stream
C22_Witness ==
  \E i, j \in 1..Len(ActionLines(files)) :
    /\ ActionLines(files)[i].type = "continuity_implicit_restore"
    /\ ActionLines(files)[j].type = "agent_start"
    /\ ActionLines(files)[j].id = ActionLines(files)[i].id + 1

\* ------------------------------------------------------------------ C23
IsPrefix(before, after) ==
  Len(before) <= Len(after) /\ SubSeq(after, 1, Len(before)) = before

\* C23: every step of the writer leaves each existing stream file in
\* existence with its former lines as a prefix of its lines: nothing is
\* rewritten, truncated or removed, and no header write replaces a file.
C23_AppendOnly ==
  [][\A d \in Days :
       files[d].exists =>
         files'[d].exists /\ IsPrefix(files[d].lines, files'[d].lines)]_vars

\* a writer initialized again on the file of a day that already holds
\* entries, after a close(), has appended to it
C23_Witness ==
  /\ initialized
  /\ stateFile.present
  /\ currentStreamPath # NoPath
  /\ Len(files[currentStreamPath].lines) >= 3
  /\ state.sequence > stateFile.sequence

\* ------------------------------------------------------------------ C24
\* C24: the step in which the appendFile or the fsync of a logAction throws
\* sets emergency mode (which, once set, sends every later call to the
\* emergency log: C10).
C24_AppendFailureLatches ==
  [][\A p \in Procs :
       (calls[p].failed = "none" /\ calls'[p].failed \in {"append", "fsync"})
       => emergencyMode']_vars

\* after a call whose append or fsync threw went to the emergency log, a
\* later call has appended its entry to a stream file
C24_AppendedAfterFailure ==
  \E p \in Procs :
    /\ calls[p].pc = "fsync"
    /\ InStream(calls[p].entry.id)
    /\ \E i \in 1..Len(emergencyLog) : emergencyLog[i] < calls[p].entry.id
    /\ ~emergencyMode

\* ------------------------------------------------------------------ C25
\* C25: with logging on, a logAction called on a writer that is not
\* initialized (initialize() has not completed, or close() has) returns false
\* at once; the stream files, the emergency log and the state are as before.
C25_NotInitialized ==
  [][\A p \in Procs :
       (/\ calls[p].pc = "idle"
        /\ calls'[p].entry.id = nextId + 1
        /\ ~initialized
        /\ cfg.logLevel # "off")
       => /\ calls'[p].pc = "done"
          /\ calls'[p].result = "false"
          /\ files' = files
          /\ emergencyLog' = emergencyLog
          /\ state' = state]_vars

\* a call made after close() has completed, on a writer that had recorded
\* entries, has returned false
C25_Witness ==
  \E p \in Procs :
    /\ ~initialized
    /\ cfg.logLevel # "off"
    /\ stateFile.present
    /\ state.sequence >= 1
    /\ calls[p].pc = "done"
    /\ calls[p].entry.id # 0
    /\ calls[p].result = "false"
    /\ calls[p].failed = "none"

\* ------------------------------------------------------------------ C26
HasError(report, type, sequence) ==
  \E k \in 1..Len(report.errors) :
    report.errors[k].type = type /\ report.errors[k].sequence = sequence

\* the stream holds exactly three entries, validly chained, with the
\* sequences 1, 2, 3
ThreeValidAppends(lines) ==
  /\ Quiescent
  /\ Cardinality(EntryPositions(lines)) = 3
  /\ {lines[i].sequence : i \in EntryPositions(lines)} = {1, 2, 3}
  /\ validateLines(lines).valid

\* the report of validateStream once the content of the entry with sequence 2
\* is replaced and its stored _integrity left as it is
SecondTampered(lines) ==
  LET second == CHOOSE i \in EntryPositions(lines) : lines[i].sequence = 2
  IN validateLines(WithPayload(lines, second, "tampered"))

\* C26: after three valid chained appends, replacing the content of the
\* second entry makes validateStream report a hash_mismatch at sequence 2
\* and a chain_break at sequence 3.
C26_TamperedSecondEntry ==
  LET lines == StreamLines(files) IN
  ThreeValidAppends(lines) =>
    /\ HasError(SecondTampered(lines), "hash_mismatch", 2)
    /\ HasError(SecondTampered(lines), "chain_break", 3)

\* C26, what the validator reports: never a chain_break at sequence 3, and
\* when the second entry's text holds no key _header exactly the
\* hash_mismatch at sequence 2
C26_OnlyTheHashMismatch ==
  LET lines == StreamLines(files)
      second == CHOOSE i \in EntryPositions(lines) : lines[i].sequence = 2
  IN ThreeValidAppends(lines) =>
       /\ ~HasError(SecondTampered(lines), "chain_break", 3)
       /\ lines[second].payload # "hdrkey" =>
            SecondTampered(lines).errors =
              <<[sequence |-> 2, type |-> "hash_mismatch"]>>

\* ------------------------------------------------------------------ C27
\* a settled call, with logging on, whose entry does not serialize: it
\* returned false, its entry is in no stream file and the state is the state
\* at the call
UnserializableRefused(p) ==
  (/\ calls[p].pc = "done"
   /\ calls[p].entry.id # 0
   /\ ~Serializable(calls[p].entry)
   /\ cfg.logLevel # "off")
  => /\ calls[p].result = "false"
     /\ ~InStream(calls[p].entry.id)
     /\ state = calls[p].pre

\* C27: an entry that cannot be serialized makes logAction return false,
\* append nothing and leave state.sequence and state.lastHash unchanged,
\* with integrity checking enabled and with it disabled.
C27_SerializationError == \A p \in Procs : UnserializableRefused(p)

\* C27 with integrity checking disabled: the call returns false unless it
\* is the call that rotates and the header write throws, which rejects it
\* before the entry is serialized; nothing is appended, the state is as before
C27_WithoutIntegrity ==
  ~cfg.enableIntegrityCheck =>
    \A p \in Procs :
      (/\ calls[p].pc = "done"
       /\ calls[p].entry.id # 0
       /\ ~Serializable(calls[p].entry)
       /\ cfg.logLevel # "off")
      => /\ calls[p].result \in {"false", "rejected"}
         /\ calls[p].result = "rejected" =>
              faults > 0 /\ currentStreamPath = today
         /\ ~InStream(calls[p].entry.id)
         /\ state = calls[p].pre

\* ------------------------------------------------------------------ C28
\* C28: the first line of every existing stream file is the header object
\* and every later line is an action envelope.
C28_HeaderFirst ==
  \A d \in Days :
    files[d].exists =>
      /\ BeginsWithHeader(d)
      /\ \A i \in 2..Len(files[d].lines) : files[d].lines[i].kind = "action"

\* C28 as long as no filesystem operation has failed
C28_HeaderFirstWithoutFailure == faults = 0 => C28_HeaderFirst

\* ------------------------------------------------------------------ C29
\* the call of p is sent to the emergency log for low disk space and the
\* writer enters emergency mode
EntersEmergencyMode(p) ==
  /\ ~emergencyMode
  /\ emergencyMode'
  /\ calls'[p].failed = "lowdisk"

\* C29: logAction enters emergency mode exactly when the free space reported
\* is below MIN_FREE_SPACE_MB (a reading equal to it does not trigger it);
\* when the probe throws the writer takes the normal path.
C29_DiskSpaceGate ==
  [][\A p \in Procs : \A reading \in FreeSpaceReadings :
       LogActionDiskCheckOf(p, reading) =>
         (EntersEmergencyMode(p) <=>
            (reading # ProbeFails /\ reading < MIN_FREE_SPACE_MB))]_vars

\* C29 for every reading but the threshold itself
C29_GateOffTheThreshold ==
  [][\A p \in Procs : \A reading \in FreeSpaceReadings \ {MIN_FREE_SPACE_MB} :
       LogActionDiskCheckOf(p, reading) =>
         (EntersEmergencyMode(p) <=>
            (reading # ProbeFails /\ reading < MIN_FREE_SPACE_MB))]_vars

\* ------------------------------------------------------------------ C30
\* the UTC day of a timestamp
DayOf(timestamp) == (timestamp \div MinutesPerDay) + 1

\* line i of the file of day d is one of its final entries stamped after d:
\* every line from i on is
FinalLaterEntries(d, i) ==
  \A j \in i..Len(files[d].lines) :
    /\ files[d].lines[j].kind = "action"
    /\ DayOf(files[d].lines[j].timestamp) > d

\* C30: every entry of the file of day d bears a timestamp of day d, except
\* possibly the final entries of the file, stamped after d.
C30_RotationLocality ==
  \A d \in Days : \A i \in 1..Len(files[d].lines) :
    files[d].lines[i].kind = "action" =>
      \/ DayOf(files[d].lines[i].timestamp) = d
      \/ FinalLaterEntries(d, i)

\* C30 for the entries a hook stamps with the clock in a call that the
\* midnight does not fall into: their file is the file of their day
C30_StampedAndAppendedTheSameDay ==
  [][\A p \in Procs :
       (/\ calls[p].pc = "append"
        /\ calls'[p].pc = "fsync"
        /\ calls[p].entry.type # "message_received"
        /\ DayOf(calls[p].entry.timestamp) = today)
       => calls[p].path = DayOf(calls[p].entry.timestamp)]_vars
\* ------------------------------------------------------------------ C31
\* C31: with checkpoints enabled, before_compaction issues the logAction of
\* its compaction entry only once createCheckpoint has settled; when the
\* checkpoint was created, its file has been written (and is on disk while
\* nothing has been pruned) and the manifest names it from the moment the
\* entry is issued until the handler has returned, hence before the entry is
\* appended; when createCheckpoint throws, the handler
\* does not reject and still issues the logAction of the compaction entry.
CompactionEntryIssued(p) ==
  /\ calls[p].entry = NoEntry
  /\ calls'[p].caller = "compaction"
  /\ calls'[p].entry # NoEntry

C31_CheckpointBeforeCompactionEntry ==
  /\ [](\A p \in Procs :
         (/\ calls[p].caller = "compaction"
          /\ calls[p].context = "checkpoint_created"
          /\ calls[p].pc # "checkpoint")
         => /\ calls[p].checkpoint.checkpointId \in 1..created
            /\ created <= MAX_CHECKPOINTS
                 => CheckpointFileExists(calls[p].checkpoint.checkpointId)
            /\ getManifest # NoManifest
            /\ getManifest.checkpoint = calls[p].checkpoint)
  /\ [][\A p \in Procs :
          /\ (CompactionEntryIssued(p) /\ checkpointManager)
               => /\ calls[p].pc = "checkpoint"
                  /\ calls'[p].context
                       \in {"checkpoint_created", "checkpoint_failed"}
          /\ (/\ calls[p].pc = "checkpoint"
              /\ calls'[p].context = "checkpoint_failed")
               => /\ calls'[p].hook # "rejected"
                  /\ (store # "null" /\ cfg.logLevel # "off")
                       => /\ CompactionEntryIssued(p)
                          /\ calls'[p].entry.type = "compaction"]_vars

\* a compaction entry is in the stream, appended after its checkpoint was
\* created, and the manifest names that checkpoint
C31_Witness ==
  \E p \in Procs :
    /\ calls[p].caller = "compaction"
    /\ calls[p].context = "checkpoint_created"
    /\ calls[p].result = "true"
    /\ InStream(calls[p].entry.id)
    /\ getManifest.checkpoint = calls[p].checkpoint

\* a compaction entry is in the stream although its createCheckpoint threw
C31_LoggedAfterFailure ==
  \E p \in Procs :
    /\ calls[p].caller = "compaction"
    /\ calls[p].context = "checkpoint_failed"
    /\ calls[p].result = "true"
    /\ InStream(calls[p].entry.id)
\* ------------------------------------------------------------------ C32
\* C32: when one of the last 100 recorded actions belongs to the session,
\* restoreContext(sessionId) is not null and its recentActions are the last
\* (up to 10) of the session's actions among those 100, however many older
\* entries the stream holds.
LastOf(seq, n) == SubSeq(seq, MathMax(1, Len(seq) - n + 1), Len(seq))

MostRecentOf(sessionId) ==
  SelectSeq(LastOf(ActionLines(files), 100),
            LAMBDA a : a.sessionId = sessionId)

C32_RestoresFromTheMostRecent ==
  \A sessionId \in HostSessions :
    (sessionRestorer /\ MostRecentOf(sessionId) # <<>>)
    => /\ restoreContext(sessionId) # "null"
       /\ recentActions(sessionId) = LastOf(MostRecentOf(sessionId), 10)

\* what the code does instead: it filters the first 100 lines of the stream,
\* the header line among them
C32_RestoresFromTheOldest ==
  \A sessionId \in HostSessions :
    LET oldest == SelectSeq(SubSeq(StreamLines(files), 1,
                                   Min({100, Len(StreamLines(files))})),
                            LAMBDA a : a.sessionId = sessionId)
    IN /\ restoreContext(sessionId) = "null" <=> oldest = <<>>
       /\ recentActions(sessionId) = LastOf(oldest, 10)

\* an explicit restore entry was logged on a stream of more than 100 lines
C32_RestoredWithinTheFirstHundred ==
  /\ Len(StreamLines(files)) > 100
  /\ calls[1].caller = "explicit_restore"
  /\ calls[1].result = "true"
\* ------------------------------------------------------------------ C33
\* C33: implicit-resume detection fires on the first before_agent_start after
\* boot.post only: an agent start that follows another of the same boot logs
\* no continuity_implicit_restore entry, and the entries of one boot hold at
\* most one continuity_implicit_restore.  The entries of the one boot of
\* SpecRestore are those with a positive id.
LoggedThisBoot(type) ==
  SelectSeq(ActionLines(files), LAMBDA a : a.id >= 1 /\ a.type = type)

C33_DetectionOnFirstStartOnly ==
  /\ [](Len(LoggedThisBoot("continuity_implicit_restore")) <= 1)
  /\ [][\A p \in Procs :
          (/\ LoggedThisBoot("agent_start") # <<>>
           /\ calls[p].pc = "idle")
          => calls'[p].caller # "implicit_restore"]_vars

\* what the code does: any agent start without resumedFrom that finds the
\* last line of the current file less than the threshold old logs the entry
C33_DetectionOnEveryStart ==
  [][\A p \in Procs :
       (/\ calls[p].pc = "idle"
        /\ calls'[p].caller = "implicit_restore")
       => /\ sessionRestorer
          /\ getLastActionTime # NoTimestamp
          /\ Now - getLastActionTime < thresholdMinutes]_vars
\* ------------------------------------------------------------------ C34
\* C34: the tool_result entry that after_tool_call logs for a critical tool
\* whose tool_call logAction returned true carries that tool_call's id as
\* parentActionId, and a tool_result line of the stream naming a parent comes
\* after its tool_call line when that one is in the stream (it is in the
\* emergency log otherwise); after a tool_call that was not persisted the
\* tool_result has no parentActionId.
ToolResultIssued(p) ==
  /\ calls[p].pc = "done"
  /\ calls[p].caller = "tool_critical"
  /\ calls'[p].caller = "tool_result"
  /\ calls'[p].entry # NoEntry

C34_ResultNamesItsToolCall ==
  /\ [](\A j \in 1..Len(StreamLines(files)) :
         LET r == StreamLines(files)[j] IN
         (r.kind = "action" /\ r.type = "tool_result" /\ r.parentActionId # 0)
         => \/ \E i \in 1..(j - 1) :
                 /\ StreamLines(files)[i].kind = "action"
                 /\ StreamLines(files)[i].type = "tool_call"
                 /\ StreamLines(files)[i].id = r.parentActionId
            \/ /\ InEmergencyLog(r.parentActionId)
               /\ ~InStream(r.parentActionId))
  /\ [][\A p \in Procs :
          ToolResultIssued(p)
          => /\ calls[p].result = "true"
                  => calls'[p].entry.parentActionId = calls[p].entry.id
             /\ calls[p].result # "true"
                  => calls'[p].entry.parentActionId = 0]_vars

\* a tool_result line of the stream names the tool_call line before it
C34_Witness ==
  \E j \in 1..Len(ActionLines(files)) :
    /\ ActionLines(files)[j].type = "tool_result"
    /\ ActionLines(files)[j].parentActionId # 0
    /\ InStream(ActionLines(files)[j].parentActionId)

\* a tool_result line without a parent follows a critical tool's call that
\* was not persisted and not blocked
C34_NoParentWhenNotPersisted ==
  \E p \in Procs :
    /\ calls[p].caller = "tool_result"
    /\ calls[p].entry.parentActionId = 0
    /\ InStream(calls[p].entry.id)
    /\ ~cfg.blockOnPersistenceFailure
    /\ cfg.logLevel = "judgment"
\* ------------------------------------------------------------------ C35
\* C35: with logging on, a logAction that returned true has left its entry in
\* exactly one of the stream and the emergency log.
ReturnedTrue(p) ==
  /\ calls[p].pc = "done"
  /\ calls[p].result = "true"
  /\ calls[p].entry # NoEntry
  /\ cfg.logLevel # "off"

C35_ExactlyOnePlace ==
  \A p \in Procs :
    ReturnedTrue(p)
    => (InStream(calls[p].entry.id) <=> ~InEmergencyLog(calls[p].entry.id))

\* the half of C35 the code keeps: the entry is in one of the two places at
\* least, and in both only after its line was appended and the fsync threw
C35_AtLeastOnePlace ==
  \A p \in Procs :
    ReturnedTrue(p)
    => /\ InStream(calls[p].entry.id) \/ InEmergencyLog(calls[p].entry.id)
       /\ (InStream(calls[p].entry.id) /\ InEmergencyLog(calls[p].entry.id))
            => calls[p].failed = "fsync"
\* ------------------------------------------------------------------ C36
\* C36: with integrity checks on, ContinuityStore.verifyIntegrity() reports
\* valid exactly when IntegrityValidator.validateStream() does, whatever the
\* stream holds.
C36_VerifiersAgree ==
  cfg.enableIntegrityCheck
  => (verifyIntegrity(files).valid <=> validateStream(files).valid)

\* a hashed line after the first hashed line claims "genesis" as its previous
GenesisAgain(lines) ==
  \E i, j \in 1..Len(lines) :
    /\ i < j
    /\ lines[i].integrity
    /\ lines[j].integrity
    /\ lines[j].previous = Genesis

\* where the two disagree on the streams the writer leaves: on no stream
\* without a second "genesis" and without an action holding a key _header
C36_AgreeOtherwise ==
  (/\ cfg.enableIntegrityCheck
   /\ AllPlain(StreamLines(files))
   /\ ~GenesisAgain(StreamLines(files)))
  => (verifyIntegrity(files).valid <=> validateStream(files).valid)

\* the store's verifier accepts every link that claims "genesis"
C36_GenesisAccepted ==
  (/\ cfg.enableIntegrityCheck
   /\ AllPlain(StreamLines(files))
   /\ verifyIntegrity(files).valid # validateStream(files).valid)
  => /\ verifyIntegrity(files).valid
     /\ \E i \in 1..Len(validateStream(files).errors) :
          validateStream(files).errors[i].type = "chain_break"
\* ------------------------------------------------------------------ C37
\* C37: right after a createCheckpoint that returned, whatever timestamp the
\* caller gave and whatever checkpoints were on disk, the checkpoint file the
\* manifest names exists and canRecover() is true.
C37_CreatedCheckpointSurvives ==
  checkpointOp.op = "createCheckpoint"
  => /\ CheckpointFileExists(getManifest.checkpoint.checkpointId)
     /\ canRecover

\* what the pruning keeps: the checkpoint just created survives when fewer
\* than MAX_CHECKPOINTS files on disk carry its timestamp or a later one
C37_SurvivesWhenAmongTheNewest ==
  [][(/\ checkpointOp'.op = "createCheckpoint"
      /\ created' = created + 1
      /\ Cardinality({i \in 1..Len(checkpointFiles) :
            checkpointFiles[i].timestamp >= checkpointOp'.checkpoint.timestamp})
           < MAX_CHECKPOINTS)
     => /\ CheckpointFileExists(checkpointOp.checkpoint.checkpointId)'
        /\ canRecover']_vars
\* ------------------------------------------------------------------ C38
\* C38: every element that queryActions and getRecentActions return is an
\* action envelope, never the file header, and totalActions of the activity
\* summary is the number of actions in its window.
OnlyActions(returned) ==
  \A i \in 1..Len(returned) :
    /\ returned[i].kind = "action"
    /\ returned[i].sequence >= 1
    /\ returned[i].timestamp # NoTimestamp

C38_ReadsReturnActionsOnly ==
  initialized
  => /\ OnlyActions(getRecentActions(100))
     /\ OnlyActions(queryActions(NoTimestamp, 100))
     /\ getRecentActivitySummary(1).totalActions
          = Len(SelectSeq(ActionLines(files),
                          LAMBDA a : a.timestamp >= Now - 60))

\* what the reads return besides actions: header lines and nothing else
C38_HeadersAreReturned ==
  initialized
  => /\ \A i \in 1..Len(queryActions(NoTimestamp, 100)) :
          queryActions(NoTimestamp, 100)[i].kind \in {"action", "header"}
     /\ getRecentActivitySummary(1).totalActions
          = Len(SelectSeq(StreamLines(files),
                          LAMBDA a : \/ a.kind = "header"
                                     \/ a.timestamp >= Now - 60))
\* ------------------------------------------------------------------ C39
\* C39: validateStream checks every action entry the writer appended, one
\* whose content holds a key _header with value true included, and skips
\* only the header line of each file: totalChecked is the number of action
\* lines.
C39_EveryActionChecked ==
  validateStream(files).totalChecked = Len(ActionLines(files))

\* what validateStream counts: the action lines whose text does not hold
\* "_header":true
C39_HeaderTextSkipped ==
  validateStream(files).totalChecked
    = Len(SelectSeq(ActionLines(files), LAMBDA a : a.payload # "hdrkey"))
\* ------------------------------------------------------------------ C40
\* C40: before_tool_call never tells the host to block a tool that is not
\* critical, whatever the configuration, the state of the writer and the
\* outcome of logAction; under logLevel "judgment" it logs no tool_call entry
\* for such a tool.
C40_NonCriticalNeverBlocked ==
  \A p \in Procs :
    calls[p].caller = "tool_other"
    => /\ calls[p].hook # "block"
       /\ cfg.logLevel = "judgment" => calls[p].entry = NoEntry
       /\ calls[p].pc = "done" => calls[p].hook = "pass"

\* with blocking on, the tool_call entry of a tool that is not critical was
\* not persisted and the hook let the tool pass
C40_Witness ==
  \E p \in Procs :
    /\ calls[p].caller = "tool_other"
    /\ cfg.blockOnPersistenceFailure
    /\ cfg.logLevel = "everything"
    /\ calls[p].pc = "done"
    /\ calls[p].result \in {"false", "rejected"}
    /\ calls[p].hook = "pass"

\* under "judgment" the hook of a tool that is not critical has returned on
\* an initialized writer and nothing was logged
C40_NotLoggedUnderJudgment ==
  \E p \in Procs :
    /\ calls[p].caller = "tool_other"
    /\ cfg.logLevel = "judgment"
    /\ initialized
    /\ calls[p].pc = "done"
    /\ nextId = 0
====
